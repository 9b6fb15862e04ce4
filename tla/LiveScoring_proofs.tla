------------------------- MODULE LiveScoring_proofs -------------------------
(***************************************************************************)
(* Proofs about the scoring of a game, for any scorekeepers, any number of *)
(* leases, periods, events, transitions and concurrent reschedules.        *)
(***************************************************************************)
EXTENDS LiveScoring, ScoringLease_proofs, Sums

USE ScoringLeaseAssumption

-----------------------------------------------------------------------------
\* Typing.

\* What the type invariant says of the three append-only tables.
LEMMA Tables ==
  ASSUME TypeOK
  PROVE  /\ Len(events) \in Nat /\ DOMAIN events = 1..Len(events)
         /\ Len(transitions) \in Nat /\ DOMAIN transitions = 1..Len(transitions)
         /\ Len(outbox) \in Nat /\ DOMAIN outbox = 1..Len(outbox)
         /\ \A i \in DOMAIN events : events[i] \in Event
         /\ \A i \in DOMAIN transitions : transitions[i] \in StateTransition
<1>1. events \in Seq(Event) /\ transitions \in Seq(StateTransition) /\ outbox \in Seq(Messages)
  BY DEF TypeOK
<1> QED BY <1>1, LenProperties, ElementOfSeq

\* A row appended to a table is the last one, and the others stay.
LEMMA Appended ==
  ASSUME NEW S, NEW table \in Seq(S), NEW row \in S
  PROVE  /\ Append(table, row) \in Seq(S)
         /\ Len(Append(table, row)) = Len(table) + 1
         /\ DOMAIN Append(table, row) = 1..(Len(table) + 1)
         /\ Append(table, row)[Len(table) + 1] = row
         /\ \A i \in 1..Len(table) : Append(table, row)[i] = table[i]
  BY AppendProperties, LenProperties

LEMMA RecordEventType ==
  ASSUME TypeOK, NEW k \in Nat, NEW s \in Nat, NEW v \in Int, NEW p \in Periods, v = version,
         NEW type \in ScoreTypes, NEW team \in Teams \cup {NoTeam}, NEW delta \in Int,
         NEW target \in Nat, RecordEvent(k, s, v, p, type, team, delta, target)
  PROVE  TypeOK'
<1> DEFINE row == [key |-> k, sequence |-> lastEventSequence + 1,
                   expectedVersion |-> v, resultingGameVersion |-> version + 1,
                   period |-> p, session |-> s, type |-> type, team |-> team,
                   pointsDelta |-> delta, correctionOf |-> target]
<1>1. row \in Event
  <2>1. p \in Nat
    BY LiveScoringAssumption DEF Periods
  <2>2. version \in Nat /\ lastEventSequence \in Nat
    BY DEF TypeOK
  <2> QED BY <2>1, <2>2 DEF Event
<1>2. events' \in Seq(Event)
  BY <1>1, Appended DEF TypeOK, RecordEvent
<1>3. outbox' \in Seq(Messages)
  <2>1. "game.score-updated" \in Messages
    BY DEF Messages
  <2> QED BY <2>1, Appended DEF TypeOK, RecordEvent
<1>4. score' \in [Teams -> Nat]
  <2>1. score' = [t \in Teams |-> IF t = team THEN score[t] + delta ELSE score[t]]
    BY DEF RecordEvent, Book, Added
  <2>2. \A t \in Teams : score'[t] \in Int /\ score'[t] >= 0
    BY <2>1 DEF RecordEvent, TypeOK
  <2> QED BY <2>1, <2>2
<1>5. periods' \in [Periods -> Period]
  <2> DEFINE total == [t \in Teams |-> IF t = team THEN periods[p].score[t] + delta
                                       ELSE periods[p].score[t]]
  <2>1. periods' = [periods EXCEPT ![p].score = total]
    BY DEF RecordEvent, Book, Added
  <2>2. periods[p].score \in [Teams -> Nat]
    BY DEF TypeOK, Period
  <2>3. periods'[p].score = total
    BY <2>1 DEF TypeOK, Period
  <2>4. \A t \in Teams : total[t] \in Int /\ total[t] >= 0
    BY <2>2, <2>3 DEF RecordEvent
  <2>5. total \in [Teams -> Nat]
    BY <2>4
  <2>6. [periods[p] EXCEPT !.score = total] \in Period
    BY <2>5 DEF TypeOK, Period
  <2>7. periods' = [periods EXCEPT ![p] = [periods[p] EXCEPT !.score = total]]
    BY <2>1
  <2> HIDE DEF total
  <2> QED BY <2>6, <2>7 DEF TypeOK
<1>6. LeaseTypeOK'
  BY DEF TypeOK, RecordEvent, LeaseTypeOK, leaseVars
<1> QED BY <1>2, <1>3, <1>4, <1>5, <1>6 DEF TypeOK, RecordEvent

\* Both kinds of score command record an event of the right type.
LEMMA ScoreStepType ==
  ASSUME TypeOK, ScoreStep
  PROVE  TypeOK'
<1>1. PICK k \in ScoreKeys, u \in Scorekeepers, s \in DOMAIN leases, v \in KnownVersions,
           p \in Periods :
        \/ \E type \in ScoreTypes, team \in Teams : ScorePoints(k, u, s, v, p, type, team)
        \/ \E target \in DOMAIN events : ScoreCorrection(k, u, s, v, p, target)
  BY DEF ScoreStep
<1>2. k \in Nat /\ s \in Nat /\ v \in Int
  BY Tables, LeaseRows DEF ScoreKeys, KnownVersions, TypeOK
<1>3. ASSUME NEW type \in ScoreTypes, NEW team \in Teams, ScorePoints(k, u, s, v, p, type, team)
      PROVE  TypeOK'
  <2>1. v = version
    BY <1>3 DEF ScorePoints, Scorable
  <2>2. Points[type] \in Int
    BY <1>3, LiveScoringAssumption DEF ScorePoints, Points
  <2>3. (IF Points[type] = 0 THEN NoTeam ELSE team) \in Teams \cup {NoTeam}
    OBVIOUS
  <2>4. RecordEvent(k, s, v, p, type, IF Points[type] = 0 THEN NoTeam ELSE team, Points[type], 0)
    BY <1>3 DEF ScorePoints
  <2> QED BY <1>2, <2>1, <2>2, <2>3, <2>4, RecordEventType
<1>4. ASSUME NEW target \in DOMAIN events, ScoreCorrection(k, u, s, v, p, target)
      PROVE  TypeOK'
  <2>1. v = version /\ "CORRECTION" \in ScoreTypes
    BY <1>4 DEF ScoreCorrection, Scorable
  <2>2. target \in Nat /\ events[target] \in Event
    BY Tables
  <2>3. events[target].team \in Teams \cup {NoTeam} /\ -events[target].pointsDelta \in Int
    BY <2>2 DEF Event
  <2>4. RecordEvent(k, s, v, p, "CORRECTION", events[target].team,
                    -events[target].pointsDelta, target)
    BY <1>4 DEF ScoreCorrection
  <2> QED BY <1>2, <2>1, <2>2, <2>3, <2>4, RecordEventType
<1> QED BY <1>1, <1>3, <1>4

\* A row of the transition table, whichever operation writes it.
LEMMA RecordTransitionType ==
  ASSUME TypeOK, NEW k \in Nat, NEW type \in TransitionTypes \cup {"STATUS_CHANGED"},
         NEW v \in Nat, NEW from \in Statuses, NEW to \in Statuses,
         NEW announcement \in Messages, RecordTransition(k, type, v, v, from, to, announcement)
  PROVE  transitions' \in Seq(StateTransition) /\ outbox' \in Seq(Messages)
<1> DEFINE row == [key |-> k, type |-> type, expectedVersion |-> v,
                   resultingGameVersion |-> v + 1, from |-> from, to |-> to]
<1>1. row \in StateTransition
  BY DEF StateTransition
<1> QED BY <1>1, Appended DEF TypeOK, RecordTransition

LEMMA TransitionStepType ==
  ASSUME TypeOK, TransitionStep
  PROVE  TypeOK'
<1>1. PICK k \in RequestKeys, u \in Scorekeepers, s \in 0..Len(leases), v \in KnownVersions,
           type \in TransitionTypes, p \in 0..MaxPeriod, elevated \in Elevations :
        Transition(k, u, s, v, type, p, elevated)
  BY DEF TransitionStep
<1> DEFINE period == NextPeriod(type, p)
<1>2. k \in Nat
  BY <1>1, Tables DEF RequestKeys
<1>3. v = version /\ v \in Nat
  BY <1>1 DEF Transition, TypeOK
<1>4. NextStatus(type) \in Statuses /\ status \in Statuses
  BY DEF NextStatus, Statuses, TypeOK
<1>5. transitions' \in Seq(StateTransition) /\ outbox' \in Seq(Messages)
  <2>1. RecordTransition(k, type, v, v, status, NextStatus(type), TransitionAnnouncement(type))
    BY <1>1, <1>3 DEF Transition
  <2>2. TransitionAnnouncement(type) \in Messages
    BY DEF TransitionAnnouncement, Messages
  <2> QED BY <1>2, <1>3, <1>4, <2>1, <2>2, RecordTransitionType
<1>6. period \in Nat /\ (type \in Starts => period \in Periods)
  <2>1. currentPeriod \in Nat /\ p \in Nat /\ RegulationPeriods \in Nat /\ MaxPeriod \in Nat
    BY LiveScoringAssumption DEF TypeOK
  <2>2. NextTransition(type, p, elevated) /\ period <= MaxPeriod
    BY <1>1 DEF Transition
  <2>3. CASE type = "GAME_STARTED"
    BY <2>1, <2>2, <2>3 DEF NextPeriod, Periods
  <2>4. CASE type = "PERIOD_STARTED"
    BY <2>1, <2>2, <2>4 DEF NextPeriod, NextTransition, Periods
  <2>5. CASE type = "OVERTIME_STARTED"
    BY <2>1, <2>2, <2>5 DEF NextPeriod, NextTransition, Periods
  <2>6. CASE type \notin Starts
    BY <2>1, <2>6 DEF NextPeriod, Starts
  <2> QED BY <2>3, <2>4, <2>5, <2>6 DEF Starts
<1> HIDE DEF period
<1>7. periods' \in [Periods -> Period]
  <2>1. CASE type \in Starts
    <3>1. periods' = [periods EXCEPT ![period].phase = "started"]
      BY <1>1, <2>1 DEF Transition, period, Starts
    <3> QED BY <1>6, <2>1, <3>1 DEF TypeOK, Period
  <2>2. CASE type = "PERIOD_ENDED"
    <3>1. periods' = [periods EXCEPT ![period].phase = "ended"]
      BY <1>1, <2>2 DEF Transition, period, Starts
    <3> QED BY <2>2, <3>1 DEF TypeOK, Period
  <2>3. CASE type \notin Starts \cup {"PERIOD_ENDED"}
    BY <1>1, <2>3 DEF Transition, TypeOK
  <2> QED BY <2>1, <2>2, <2>3
<1>8. LeaseTypeOK'
  BY <1>1 DEF TypeOK, Transition, LeaseTypeOK, leaseVars
<1>9. status' = NextStatus(type) /\ currentPeriod' = period /\ version' = version + 1
  BY <1>1 DEF Transition, period
<1>10. UNCHANGED <<score, lastEventSequence, forfeitWinner, events, rescheduling>>
  BY <1>1 DEF Transition
<1> QED BY <1>4, <1>5, <1>6, <1>7, <1>8, <1>9, <1>10 DEF TypeOK

LEMMA ManagementStepType ==
  ASSUME TypeOK, ManagementStep
  PROVE  TypeOK'
<1>1. ASSUME NEW k \in RequestKeys, NEW v \in KnownVersions, NEW new \in StatusChanges,
             NEW winner \in Teams, SetStatus(k, v, new, winner)
      PROVE  TypeOK'
  <2>1. k \in Nat /\ v = version /\ v \in Nat
    BY <1>1, Tables DEF RequestKeys, SetStatus, TypeOK
  <2>2. new \in Statuses /\ status \in Statuses /\ Announcement[new] \in Messages
    BY LiveScoringAssumption DEF Statuses, Announcement, Messages, TypeOK
  <2>3. RecordTransition(k, "STATUS_CHANGED", v, v, status, new, Announcement[new])
    BY <1>1, <2>1 DEF SetStatus
  <2>4. transitions' \in Seq(StateTransition) /\ outbox' \in Seq(Messages)
    BY <2>1, <2>2, <2>3, RecordTransitionType
  <2>5. score' \in [Teams -> Nat] /\ forfeitWinner' \in Teams \cup {NoTeam}
    BY <1>1, LiveScoringAssumption DEF SetStatus, TypeOK
  <2>6. LeaseTypeOK'
    BY <1>1 DEF TypeOK, SetStatus, LeaseTypeOK, leaseVars
  <2> QED BY <1>1, <2>2, <2>4, <2>5, <2>6 DEF SetStatus, TypeOK
<1>2. ASSUME NEW k \in RequestKeys, NEW v \in KnownVersions, NEW r \in Reschedulers,
             RescheduleRead(r, k, v)
      PROVE  TypeOK'
  <2>1. k \in Nat /\ version \in Nat /\ status \in Statuses
    BY Tables DEF RequestKeys, TypeOK
  <2>2. LeaseTypeOK'
    BY <1>2 DEF TypeOK, RescheduleRead, LeaseTypeOK, leaseVars
  <2>3. rescheduling' \in [Reschedulers -> [key : Nat, version : Nat, status : Statuses]]
    BY <1>2, <2>1 DEF RescheduleRead, TypeOK
  <2> QED BY <1>2, <2>2, <2>3 DEF RescheduleRead, TypeOK
<1>3. ASSUME NEW r \in Reschedulers, RescheduleCommit(r)
      PROVE  TypeOK'
  <2> DEFINE read == rescheduling[r]
  <2>1. read.key \in Nat /\ read.version \in Nat /\ read.status \in Statuses
    BY DEF TypeOK
  <2>2. RecordTransition(read.key, "STATUS_CHANGED", read.version, read.version, read.status,
                         read.status, "game.schedule-changed")
    BY <1>3 DEF RescheduleCommit
  <2>3. "game.schedule-changed" \in Messages
    BY DEF Messages
  <2>6. transitions' \in Seq(StateTransition) /\ outbox' \in Seq(Messages)
    BY <2>1, <2>2, <2>3, RecordTransitionType
  <2>4. Idle \in [key : Nat, version : Nat, status : Statuses]
    BY DEF Idle, Statuses
  <2>5. LeaseTypeOK'
    BY <1>3 DEF TypeOK, RescheduleCommit, LeaseTypeOK, leaseVars
  <2> QED BY <1>3, <2>1, <2>6, <2>4, <2>5 DEF RescheduleCommit, TypeOK
<1>4. ASSUME NEW r \in Reschedulers, RescheduleAbort(r)
      PROVE  TypeOK'
  <2>1. Idle \in [key : Nat, version : Nat, status : Statuses]
    BY DEF Idle, Statuses
  <2>2. LeaseTypeOK'
    BY <1>4 DEF TypeOK, RescheduleAbort, LeaseTypeOK, leaseVars
  <2> QED BY <1>4, <2>1, <2>2 DEF RescheduleAbort, TypeOK
<1> QED BY <1>1, <1>2, <1>3, <1>4 DEF ManagementStep

LEMMA LeaseStepType ==
  ASSUME TypeOK, OnlyNewestUnrevoked, LeaseStep
  PROVE  TypeOK'
<1>1. UNCHANGED gameVars
  BY DEF LeaseStep, AcquireLease
<1>2. LeaseTypeOK'
  BY AcquireKeepsNewest, UpkeepKeepsNewest DEF LeaseStep, AcquireLease, TypeOK
<1> QED BY <1>1, <1>2 DEF TypeOK, gameVars

\* The type invariant needs that of the lease table, and nothing else.
LEMMA TypeInductive ==
  TypeOK /\ OnlyNewestUnrevoked /\ [Next]_vars => TypeOK' /\ OnlyNewestUnrevoked'
<1> SUFFICES ASSUME TypeOK, OnlyNewestUnrevoked, [Next]_vars
             PROVE  TypeOK' /\ OnlyNewestUnrevoked'
  OBVIOUS
<1>1. ASSUME UNCHANGED leaseVars
      PROVE  OnlyNewestUnrevoked'
  BY <1>1 DEF OnlyNewestUnrevoked, leaseVars
<1>2. CASE ScoreStep
  <2>1. ASSUME NEW k, NEW u, NEW s, NEW v, NEW p, NEW type, NEW team,
               ScorePoints(k, u, s, v, p, type, team) \/ ScoreCorrection(k, u, s, v, p, type)
        PROVE  UNCHANGED leaseVars
    BY <2>1 DEF ScorePoints, ScoreCorrection, RecordEvent
  <2>2. UNCHANGED leaseVars
    BY <1>2, <2>1 DEF ScoreStep
  <2> QED BY <1>1, <1>2, <2>2, ScoreStepType
<1>3. CASE TransitionStep
  <2>1. UNCHANGED leaseVars
    BY <1>3 DEF TransitionStep, Transition
  <2> QED BY <1>1, <1>3, <2>1, TransitionStepType
<1>4. CASE ManagementStep
  <2>1. UNCHANGED leaseVars
    <3>1. ASSUME NEW k, NEW v, NEW new, NEW winner, SetStatus(k, v, new, winner)
          PROVE  UNCHANGED leaseVars
      BY <3>1 DEF SetStatus
    <3>2. ASSUME NEW k, NEW v, NEW r,
                 RescheduleRead(r, k, v) \/ RescheduleCommit(r) \/ RescheduleAbort(r)
          PROVE  UNCHANGED leaseVars
      BY <3>2 DEF RescheduleRead, RescheduleCommit, RescheduleAbort
    <3> QED BY <1>4, <3>1, <3>2 DEF ManagementStep
  <2> QED BY <1>1, <1>4, <2>1, ManagementStepType
<1>5. CASE LeaseStep
  BY <1>5, LeaseStepType, AcquireKeepsNewest, UpkeepKeepsNewest DEF LeaseStep, AcquireLease, TypeOK
<1>6. CASE UNCHANGED vars
  BY <1>6 DEF vars, gameVars, leaseVars, TypeOK, LeaseTypeOK, OnlyNewestUnrevoked
<1> QED BY <1>2, <1>3, <1>4, <1>5, <1>6 DEF Next

LEMMA InitType == Init => TypeOK /\ OnlyNewestUnrevoked
<1> SUFFICES ASSUME Init PROVE TypeOK /\ OnlyNewestUnrevoked
  OBVIOUS
<1>1. LeaseTypeOK /\ OnlyNewestUnrevoked
  BY DEF Init, LeaseInit, LeaseTypeOK, OnlyNewestUnrevoked
<1>2. [phase |-> "absent", score |-> [t \in Teams |-> 0]] \in Period
  BY DEF Period
<1>3. Idle \in [key : Nat, version : Nat, status : Statuses]
  BY DEF Idle, Statuses
<1> QED BY <1>1, <1>2, <1>3 DEF Init, TypeOK, Statuses, NoTeam

\* Every column of every table has its type, and at most the newest lease is not
\* revoked, throughout the life of a game (schema.prisma:724-859, 1214-1231).
THEOREM Typed == Spec => [](TypeOK /\ OnlyNewestUnrevoked)
<1> QED BY InitType, TypeInductive, PTL DEF Spec

\* acquire runs into its unique index only if a lease runs out between its two looks
\* at the clock (scoring-lease.service.ts:65-84), for any scorekeepers and leases.
THEOREM NobodyLockedOut == Spec => []CollisionsNeedALapse
<1>1. TypeOK /\ OnlyNewestUnrevoked => CollisionsNeedALapse
  BY NewestLeavesNothing DEF TypeOK
<1> QED BY Typed, <1>1, PTL
-----------------------------------------------------------------------------
\* What one step does to the tables.

\* The row a score command adds: accepted against the current version and period
\* of a live game, under the newest lease, and a correction only of a basket
\* that no event corrects.
NewEvent(row) ==
  /\ events' = Append(events, row)
  /\ row \in Event
  /\ row.key \notin EventKeys
  /\ row.sequence = lastEventSequence + 1
  /\ row.expectedVersion = version
  /\ row.session \in DOMAIN leases /\ row.session = Len(leases)
  /\ \/ row.type # "CORRECTION" /\ row.correctionOf = 0
     \/ /\ row.type = "CORRECTION"
        /\ Correctable(row.correctionOf)
        /\ row.team = events[row.correctionOf].team
        /\ row.pointsDelta = -events[row.correctionOf].pointsDelta

\* The row that RecordEvent appends.
LEMMA RecordedRow ==
  ASSUME TypeOK, TypeOK', NEW k, NEW s, NEW v, NEW p, NEW type, NEW team, NEW delta, NEW target,
         RecordEvent(k, s, v, p, type, team, delta, target)
  PROVE  LET row == events'[Len(events) + 1]
         IN  /\ events' = Append(events, row) /\ row \in Event
             /\ row.key = k /\ row.sequence = lastEventSequence + 1 /\ row.expectedVersion = v
             /\ row.resultingGameVersion = version + 1
             /\ row.session = s /\ row.type = type /\ row.team = team
             /\ row.pointsDelta = delta /\ row.correctionOf = target
<1> DEFINE row == events'[Len(events) + 1]
           new == [key |-> k, sequence |-> lastEventSequence + 1,
                   expectedVersion |-> v, resultingGameVersion |-> version + 1,
                   period |-> p, session |-> s, type |-> type, team |-> team,
                   pointsDelta |-> delta, correctionOf |-> target]
<1>1. events' = Append(events, new)
  BY DEF RecordEvent
<1> HIDE DEF new
<1>2. Len(events') = Len(events) + 1 /\ row = new
  BY <1>1, Tables DEF TypeOK
<1>3. DOMAIN events' = 1..Len(events') /\ \A i \in DOMAIN events' : events'[i] \in Event
  <2>1. events' \in Seq(Event)
    BY DEF TypeOK
  <2> QED BY <2>1, LenProperties, ElementOfSeq
<1>4. row \in Event
  BY <1>2, <1>3, Tables
<1> QED BY <1>1, <1>2, <1>4 DEF new

LEMMA ScoreStepRow ==
  ASSUME TypeOK, OnlyNewestUnrevoked, ScoreStep
  PROVE  /\ \E row : NewEvent(row)
         /\ status = "LIVE" /\ UNCHANGED <<leaseVars, status, currentPeriod, transitions>>
         /\ lastEventSequence' = lastEventSequence + 1
         /\ version' = version + 1
<1>1. PICK k \in ScoreKeys, u \in Scorekeepers, s \in DOMAIN leases, v \in KnownVersions,
           p \in Periods :
        \/ \E type \in ScoreTypes, team \in Teams : ScorePoints(k, u, s, v, p, type, team)
        \/ \E target \in DOMAIN events : ScoreCorrection(k, u, s, v, p, target)
  BY DEF ScoreStep
<1>2. Scorable(k, u, s, v, p)
  BY <1>1 DEF ScorePoints, ScoreCorrection
<1>3. s = Len(leases)
  BY <1>2 DEF Scorable, AssertValid, Current, OnlyNewestUnrevoked
<1> DEFINE row == events'[Len(events) + 1]
<1>4. ASSUME NEW type, NEW team, NEW delta, NEW target,
             RecordEvent(k, s, v, p, type, team, delta, target)
      PROVE  /\ events' = Append(events, row) /\ row \in Event
             /\ row.key = k /\ row.sequence = lastEventSequence + 1 /\ row.expectedVersion = v
             /\ row.session = s /\ row.type = type /\ row.team = team
             /\ row.pointsDelta = delta /\ row.correctionOf = target
  BY <1>4, ScoreStepType, RecordedRow
<1> HIDE DEF row
<1>5. NewEvent(row)
  <2>1. CASE \E type \in ScoreTypes, team \in Teams : ScorePoints(k, u, s, v, p, type, team)
    <3>1. PICK type \in ScoreTypes, team \in Teams : ScorePoints(k, u, s, v, p, type, team)
      BY <2>1
    <3>2. RecordEvent(k, s, v, p, type, IF Points[type] = 0 THEN NoTeam ELSE team, Points[type], 0)
      BY <3>1 DEF ScorePoints
    <3>3. type # "CORRECTION"
      BY <3>1 DEF ScorePoints
    <3>4. /\ events' = Append(events, row) /\ row \in Event
          /\ row.key = k /\ row.sequence = lastEventSequence + 1 /\ row.expectedVersion = v
          /\ row.session = s /\ row.type = type /\ row.correctionOf = 0
      BY <1>4, <3>2
    <3> QED BY <1>2, <1>3, <3>3, <3>4 DEF Scorable, NewEvent
  <2>2. CASE \E target \in DOMAIN events : ScoreCorrection(k, u, s, v, p, target)
    <3>1. PICK target \in DOMAIN events : ScoreCorrection(k, u, s, v, p, target)
      BY <2>2
    <3>2. RecordEvent(k, s, v, p, "CORRECTION", events[target].team,
                      -events[target].pointsDelta, target)
      BY <3>1 DEF ScoreCorrection
    <3>3. /\ events' = Append(events, row) /\ row \in Event
          /\ row.key = k /\ row.sequence = lastEventSequence + 1 /\ row.expectedVersion = v
          /\ row.session = s /\ row.type = "CORRECTION" /\ row.correctionOf = target
          /\ row.team = events[target].team /\ row.pointsDelta = -events[target].pointsDelta
      BY <1>4, <3>2
    <3>4. Correctable(target)
      BY <3>1 DEF ScoreCorrection
    <3> QED BY <1>2, <1>3, <3>3, <3>4 DEF Scorable, NewEvent
  <2> QED BY <1>1, <2>1, <2>2
<1> QED BY <1>1, <1>2, <1>5 DEF Scorable, ScorePoints, ScoreCorrection, RecordEvent

\* The row a transition, a status change or a reschedule adds, if it adds one:
\* under a key that is not in the table at that moment.
LEMMA TransitionRow ==
  ASSUME TypeOK, TransitionStep \/ ManagementStep
  PROVE  /\ UNCHANGED <<leaseVars, events, lastEventSequence>>
         /\ \/ UNCHANGED transitions
            \/ \E row \in StateTransition : /\ transitions' = Append(transitions, row)
                                             /\ row.key \notin TransitionKeys
<1>1. ASSUME NEW k, NEW type, NEW v, NEW read, NEW from, NEW to, NEW announcement,
             RecordTransition(k, type, v, read, from, to, announcement), k \notin TransitionKeys,
             transitions' \in Seq(StateTransition)
      PROVE  \E row \in StateTransition : /\ transitions' = Append(transitions, row)
                                           /\ row.key \notin TransitionKeys
  <2> DEFINE row == [key |-> k, type |-> type, expectedVersion |-> v,
                     resultingGameVersion |-> read + 1, from |-> from, to |-> to]
  <2>1. transitions' = Append(transitions, row) /\ row.key = k
    BY <1>1 DEF RecordTransition
  <2> HIDE DEF row
  <2>2. Len(transitions') = Len(transitions) + 1 /\ transitions'[Len(transitions) + 1] = row
    BY <2>1, Tables DEF TypeOK
  <2>3. row \in StateTransition
    BY <1>1, <2>2, Tables, ElementOfSeq
  <2> QED BY <1>1, <2>1, <2>3
<1>2. transitions' \in Seq(StateTransition)
  BY TransitionStepType, ManagementStepType DEF TypeOK
<1>3. ASSUME NEW k, NEW u, NEW s, NEW v, NEW type, NEW p, NEW elevated,
             Transition(k, u, s, v, type, p, elevated)
      PROVE  /\ UNCHANGED <<leaseVars, events, lastEventSequence>>
             /\ \E row \in StateTransition : /\ transitions' = Append(transitions, row)
                                              /\ row.key \notin TransitionKeys
  <2>1. /\ UNCHANGED <<leaseVars, events, lastEventSequence>>
        /\ k \notin TransitionKeys
        /\ RecordTransition(k, type, v, version, status, NextStatus(type),
                            TransitionAnnouncement(type))
    BY <1>3 DEF Transition
  <2> QED BY <1>1, <1>2, <2>1
<1>4. ASSUME NEW k, NEW v, NEW new, NEW winner, SetStatus(k, v, new, winner)
      PROVE  /\ UNCHANGED <<leaseVars, events, lastEventSequence>>
             /\ \E row \in StateTransition : /\ transitions' = Append(transitions, row)
                                              /\ row.key \notin TransitionKeys
  <2>1. /\ UNCHANGED <<leaseVars, events, lastEventSequence>>
        /\ k \notin TransitionKeys
        /\ RecordTransition(k, "STATUS_CHANGED", v, version, status, new, Announcement[new])
    BY <1>4 DEF SetStatus
  <2> QED BY <1>1, <1>2, <2>1
<1>5. ASSUME NEW r, RescheduleCommit(r)
      PROVE  /\ UNCHANGED <<leaseVars, events, lastEventSequence>>
             /\ \E row \in StateTransition : /\ transitions' = Append(transitions, row)
                                              /\ row.key \notin TransitionKeys
  <2> DEFINE read == rescheduling[r]
  <2>1. /\ UNCHANGED <<leaseVars, events, lastEventSequence>>
        /\ read.key \notin TransitionKeys
        /\ RecordTransition(read.key, "STATUS_CHANGED", read.version, read.version, read.status,
                            read.status, "game.schedule-changed")
    BY <1>5 DEF RescheduleCommit
  <2> HIDE DEF read
  <2> QED BY <1>1, <1>2, <2>1
<1>6. ASSUME NEW r, NEW k, NEW v, RescheduleRead(r, k, v) \/ RescheduleAbort(r)
      PROVE  UNCHANGED <<leaseVars, events, lastEventSequence, transitions>>
  BY <1>6 DEF RescheduleRead, RescheduleAbort
<1>7. CASE TransitionStep
  BY <1>3, <1>7 DEF TransitionStep
<1>8. CASE ManagementStep
  <2>1. ASSUME NEW r \in Reschedulers, RescheduleAbort(r)
        PROVE  UNCHANGED <<leaseVars, events, lastEventSequence, transitions>>
    BY <2>1, <1>6
  <2> QED BY <1>4, <1>5, <1>6, <1>8, <2>1 DEF ManagementStep
<1> QED BY <1>7, <1>8

LEMMA LeaseStepKeeps ==
  ASSUME TypeOK, OnlyNewestUnrevoked, LeaseStep
  PROVE  UNCHANGED gameVars /\ Len(leases') \in Nat /\ Len(leases') >= Len(leases)
  BY AcquireKeepsNewest, UpkeepKeepsNewest, LeaseRows DEF LeaseStep, AcquireLease, TypeOK
-----------------------------------------------------------------------------
\* The ledger.

\* The rows of both tables are numbered: events without a gap, and no idempotency
\* key is recorded twice.
LedgerSequenced ==
  /\ lastEventSequence = Len(events)
  /\ \A i \in DOMAIN events : events[i].sequence = i
  /\ \A i, j \in DOMAIN events : events[i].key = events[j].key => i = j
  /\ \A i, j \in DOMAIN transitions : transitions[i].key = transitions[j].key => i = j

\* What LedgerSequenced, CorrectionsUndoOnce and WritersDoNotInterleave need to be
\* inductive: no session is recorded before its lease exists, a correction is never
\* positive, so that it is not corrected itself, and nothing else names a target.
EventFacts ==
  \A i \in DOMAIN events :
    /\ events[i].session <= Len(leases)
    /\ events[i].type = "CORRECTION" => events[i].pointsDelta < 0
    /\ events[i].type # "CORRECTION" => events[i].correctionOf = 0

LedgerInv == LedgerSequenced /\ CorrectionsUndoOnce /\ WritersDoNotInterleave /\ EventFacts

LEMMA NewEventKeepsLedger ==
  ASSUME TypeOK, LedgerInv, NEW row, NewEvent(row), lastEventSequence' = lastEventSequence + 1,
         UNCHANGED <<leaseVars, transitions>>
  PROVE  LedgerInv'
<1> DEFINE n == Len(events)
<1>1. /\ n \in Nat /\ DOMAIN events = 1..n /\ DOMAIN events' = 1..(n + 1)
      /\ Len(events') = n + 1 /\ events'[n + 1] = row
      /\ \A i \in 1..n : events'[i] = events[i] /\ events[i] \in Event
  BY Tables, Appended DEF NewEvent, TypeOK
<1> HIDE DEF n
<1>2. row \in Event /\ Len(leases) \in Nat
  BY LeaseRows DEF NewEvent, TypeOK
<1>3. LedgerSequenced'
  <2>1. lastEventSequence = n /\ \A i \in 1..n : events[i].sequence = i
    BY <1>1 DEF LedgerInv, LedgerSequenced, n
  <2>2. row.sequence = n + 1 /\ \A i \in 1..n : events[i].key # row.key
    BY <1>1, <2>1 DEF NewEvent, EventKeys
  <2>3. \A i, j \in 1..n : events[i].key = events[j].key => i = j
    BY <1>1 DEF LedgerInv, LedgerSequenced
  <2>4. \A i \in 1..(n + 1) : events'[i].sequence = i
    BY <1>1, <2>1, <2>2
  <2>5. \A i, j \in 1..(n + 1) : events'[i].key = events'[j].key => i = j
    BY <1>1, <2>2, <2>3
  <2>6. \A i, j \in DOMAIN transitions' : transitions'[i].key = transitions'[j].key => i = j
    BY DEF LedgerInv, LedgerSequenced
  <2> QED BY <1>1, <2>1, <2>4, <2>5, <2>6 DEF LedgerSequenced
<1>4. EventFacts'
  <2>1. \A i \in 1..n : /\ events[i].session <= Len(leases)
                        /\ events[i].type = "CORRECTION" => events[i].pointsDelta < 0
                        /\ events[i].type # "CORRECTION" => events[i].correctionOf = 0
    BY <1>1 DEF LedgerInv, EventFacts
  <2>2. row.session <= Len(leases)
    BY <1>2 DEF NewEvent
  <2>3. row.type = "CORRECTION" => row.pointsDelta < 0
    <3>1. SUFFICES ASSUME row.type = "CORRECTION" PROVE row.pointsDelta < 0
      OBVIOUS
    <3> DEFINE d == events[row.correctionOf].pointsDelta
    <3>2. row.correctionOf \in 1..n /\ d > 0 /\ row.pointsDelta = -d
      BY <1>1, <3>1 DEF NewEvent, Correctable
    <3>3. d \in Int
      BY <1>1, <3>2 DEF Event
    <3> HIDE DEF d
    <3> QED BY <3>2, <3>3
  <2>4. row.type # "CORRECTION" => row.correctionOf = 0
    BY DEF NewEvent
  <2>5. Len(leases') = Len(leases)
    BY DEF leaseVars
  <2> QED BY <1>1, <2>1, <2>2, <2>3, <2>4, <2>5 DEF EventFacts
<1>5. WritersDoNotInterleave'
  <2>1. \A i \in 1..n : events[i].session <= row.session
    BY <1>1 DEF LedgerInv, EventFacts, NewEvent
  <2>2. \A i, j \in 1..n : i <= j => events[i].session <= events[j].session
    BY <1>1 DEF LedgerInv, WritersDoNotInterleave
  <2>3. row.session <= row.session
    BY <1>2 DEF Event
  <2> QED BY <1>1, <2>1, <2>2, <2>3 DEF WritersDoNotInterleave
<1>6. CorrectionsUndoOnce'
  <2> SUFFICES ASSUME NEW i \in 1..(n + 1), events'[i].type = "CORRECTION"
               PROVE  LET target == events'[i].correctionOf
                      IN  /\ target \in 1..(i - 1)
                          /\ events'[target].type # "CORRECTION"
                          /\ events'[target].team = events'[i].team
                          /\ events'[target].pointsDelta + events'[i].pointsDelta = 0
                          /\ \A j \in 1..(n + 1) : events'[j].correctionOf = target => j = i
    BY <1>1 DEF CorrectionsUndoOnce
  <2> DEFINE target == events'[i].correctionOf
  <2>1. CASE i = n + 1
    <3>1. Correctable(target) /\ target = row.correctionOf
      BY <1>1, <2>1 DEF NewEvent
    <3>2. target \in 1..n /\ events[target].pointsDelta > 0
      BY <1>1, <3>1 DEF Correctable
    <3>3. events[target].type # "CORRECTION"
      BY <1>1, <3>2 DEF LedgerInv, EventFacts, Event
    <3>4. /\ row.team = events[target].team
          /\ events[target].pointsDelta + row.pointsDelta = 0
      <4>1. row.team = events[target].team /\ row.pointsDelta = -events[target].pointsDelta
        BY <1>1, <2>1 DEF NewEvent
      <4>2. events[target].pointsDelta \in Int
        BY <1>1, <3>2 DEF Event
      <4> QED BY <4>1, <4>2
    <3>5. \A j \in 1..n : events[j].correctionOf # target
      BY <1>1, <3>1 DEF Correctable
    <3> QED BY <1>1, <2>1, <3>2, <3>3, <3>4, <3>5
  <2>2. CASE i \in 1..n
    <3>1. /\ target \in 1..(i - 1)
          /\ events[target].type # "CORRECTION"
          /\ events[target].team = events[i].team
          /\ events[target].pointsDelta + events[i].pointsDelta = 0
          /\ \A j \in 1..n : events[j].correctionOf = target => j = i
      BY <1>1, <2>2 DEF LedgerInv, CorrectionsUndoOnce
    <3>2. row.correctionOf # target
      <4>1. CASE row.type = "CORRECTION"
        BY <1>1, <2>2, <4>1 DEF NewEvent, Correctable
      <4>2. CASE row.type # "CORRECTION"
        BY <1>1, <3>1, <4>2 DEF NewEvent
      <4> QED BY <4>1, <4>2
    <3> QED BY <1>1, <2>2, <3>1, <3>2
  <2> QED BY <1>1, <2>1, <2>2
<1> QED BY <1>3, <1>4, <1>5, <1>6 DEF LedgerInv

LEMMA NewTransitionKeepsLedger ==
  ASSUME TypeOK, LedgerInv, NEW row \in StateTransition, transitions' = Append(transitions, row),
         row.key \notin TransitionKeys, UNCHANGED <<leaseVars, events, lastEventSequence>>
  PROVE  LedgerInv'
<1> DEFINE n == Len(transitions)
<1>1. /\ n \in Nat /\ DOMAIN transitions = 1..n /\ DOMAIN transitions' = 1..(n + 1)
      /\ transitions'[n + 1] = row /\ \A i \in 1..n : transitions'[i] = transitions[i]
  BY Tables, Appended DEF TypeOK
<1> HIDE DEF n
<1>2. \A i \in 1..n : transitions[i].key # row.key
  BY <1>1 DEF TransitionKeys
<1>3. \A i, j \in 1..n : transitions[i].key = transitions[j].key => i = j
  BY <1>1 DEF LedgerInv, LedgerSequenced
<1>4. \A i, j \in DOMAIN transitions' : transitions'[i].key = transitions'[j].key => i = j
  BY <1>1, <1>2, <1>3
<1>5. LedgerSequenced'
  BY <1>4 DEF LedgerInv, LedgerSequenced
<1>6. CorrectionsUndoOnce' /\ WritersDoNotInterleave' /\ EventFacts'
  BY DEF LedgerInv, CorrectionsUndoOnce, WritersDoNotInterleave, EventFacts, leaseVars
<1> QED BY <1>5, <1>6 DEF LedgerInv

LEMMA LedgerInvariant == Spec => []LedgerInv
<1>1. Init => LedgerInv
  BY DEF Init, LeaseInit, LedgerInv, LedgerSequenced, CorrectionsUndoOnce,
         WritersDoNotInterleave, EventFacts
<1>2. TypeOK /\ OnlyNewestUnrevoked /\ LedgerInv /\ [Next]_vars => LedgerInv'
  <2> SUFFICES ASSUME TypeOK, OnlyNewestUnrevoked, LedgerInv, [Next]_vars
               PROVE  LedgerInv'
    OBVIOUS
  <2>1. CASE ScoreStep
    BY <2>1, ScoreStepRow, NewEventKeepsLedger
  <2>2. ASSUME UNCHANGED <<events, lastEventSequence, transitions>>,
               Len(leases') \in Nat, Len(leases') >= Len(leases)
        PROVE  LedgerInv'
    <3>1. LedgerSequenced' /\ CorrectionsUndoOnce' /\ WritersDoNotInterleave'
      BY <2>2 DEF LedgerInv, LedgerSequenced, CorrectionsUndoOnce, WritersDoNotInterleave
    <3>2. EventFacts'
      <4>1. Len(leases) \in Nat
        BY LeaseRows DEF TypeOK
      <4>2. \A i \in DOMAIN events : events[i].session \in Nat
        BY Tables DEF Event
      <4> QED BY <2>2, <4>1, <4>2 DEF LedgerInv, EventFacts
    <3> QED BY <3>1, <3>2 DEF LedgerInv
  <2>3. CASE TransitionStep \/ ManagementStep
    <3>1. CASE UNCHANGED transitions
      BY <2>2, <2>3, <3>1, TransitionRow, LeaseRows DEF leaseVars, TypeOK
    <3>2. CASE ~UNCHANGED transitions
      BY <2>3, <3>2, TransitionRow, NewTransitionKeepsLedger
    <3> QED BY <3>1, <3>2
  <2>4. CASE LeaseStep
    BY <2>2, <2>4, LeaseStepKeeps DEF gameVars
  <2>5. CASE UNCHANGED vars
    BY <2>2, <2>5, LeaseRows DEF vars, gameVars, leaseVars, TypeOK
  <2> QED BY <2>1, <2>3, <2>4, <2>5 DEF Next
<1> QED BY <1>1, <1>2, Typed, PTL DEF Spec

\* Corrections take back one basket each, and scoring sessions never interleave,
\* however commands, repeats, takeovers, late heartbeats and unserialized
\* reschedules overlap (live-scoring.service.ts:21-187).
THEOREM LedgerSafe == Spec => [](CorrectionsUndoOnce /\ WritersDoNotInterleave)
<1>1. LedgerInv => CorrectionsUndoOnce /\ WritersDoNotInterleave
  BY DEF LedgerInv
<1> QED BY LedgerInvariant, <1>1, PTL

\* Once a later scoring session has recorded an event, no earlier one records another
\* (scoring-lease.service.ts:22-162).
THEOREM OneWriterAtATime == Spec => []WritersDoNotInterleave
<1> QED BY LedgerSafe, PTL
-----------------------------------------------------------------------------
\* Versions.

\* Without a reschedule, every step that adds a row to the table of transitions
\* records the version of the game, and increments it.
LEMMA VersionRow ==
  ASSUME TypeOK, Reschedulers = {}, TransitionStep \/ ManagementStep
  PROVE  /\ UNCHANGED events /\ version' = version + 1
         /\ \E row : transitions' = Append(transitions, row) /\ row.expectedVersion = version
<1>1. ASSUME NEW k, NEW type, NEW v, NEW from, NEW to, NEW announcement, v = version,
             RecordTransition(k, type, v, version, from, to, announcement)
      PROVE  \E row : transitions' = Append(transitions, row) /\ row.expectedVersion = version
  <2> DEFINE row == [key |-> k, type |-> type, expectedVersion |-> v,
                     resultingGameVersion |-> version + 1, from |-> from, to |-> to]
  <2>1. transitions' = Append(transitions, row) /\ row.expectedVersion = version
    BY <1>1 DEF RecordTransition
  <2> QED BY <2>1
<1>2. ASSUME NEW k, NEW u, NEW s, NEW v, NEW type, NEW p, NEW elevated,
             Transition(k, u, s, v, type, p, elevated)
      PROVE  /\ UNCHANGED events /\ version' = version + 1
             /\ \E row : transitions' = Append(transitions, row) /\ row.expectedVersion = version
  <2>1. /\ UNCHANGED events /\ version' = version + 1 /\ v = version
        /\ RecordTransition(k, type, v, version, status, NextStatus(type),
                            TransitionAnnouncement(type))
    BY <1>2 DEF Transition
  <2> QED BY <1>1, <2>1
<1>3. ASSUME NEW k, NEW v, NEW new, NEW winner, SetStatus(k, v, new, winner)
      PROVE  /\ UNCHANGED events /\ version' = version + 1
             /\ \E row : transitions' = Append(transitions, row) /\ row.expectedVersion = version
  <2>1. /\ UNCHANGED events /\ version' = version + 1 /\ v = version
        /\ RecordTransition(k, "STATUS_CHANGED", v, version, status, new, Announcement[new])
    BY <1>3 DEF SetStatus
  <2> QED BY <1>1, <2>1
<1>4. CASE TransitionStep
  BY <1>2, <1>4 DEF TransitionStep
<1>5. CASE ManagementStep
  BY <1>3, <1>5 DEF ManagementStep
<1> QED BY <1>4, <1>5

\* Recorded versions lie below that of the game, which makes them distinct.
VersionsUsed ==
  /\ OneCommandPerVersion
  /\ \A i \in DOMAIN events : events[i].expectedVersion < version
  /\ \A i \in DOMAIN transitions : transitions[i].expectedVersion < version

\* A row for the present version keeps them distinct, in either table.
LEMMA VersionsStayDistinct ==
  ASSUME TypeOK, TypeOK', VersionsUsed, version' = version + 1, NEW row,
         row.expectedVersion = version,
         \/ events' = Append(events, row) /\ UNCHANGED transitions
         \/ transitions' = Append(transitions, row) /\ UNCHANGED events
  PROVE  VersionsUsed'
<1>1. /\ Len(events) \in Nat /\ DOMAIN events = 1..Len(events)
      /\ Len(transitions) \in Nat /\ DOMAIN transitions = 1..Len(transitions)
      /\ events \in Seq(Event) /\ transitions \in Seq(StateTransition) /\ version \in Nat
  BY Tables DEF TypeOK
<1>2. /\ \A i \in DOMAIN events : events[i].expectedVersion \in Nat
      /\ \A i \in DOMAIN transitions : transitions[i].expectedVersion \in Nat
  BY Tables DEF Event, StateTransition
<1>3. CASE events' = Append(events, row) /\ UNCHANGED transitions
  <2> DEFINE n == Len(events)
  <2>1. /\ DOMAIN events' = 1..(n + 1) /\ events'[n + 1] = row
        /\ \A i \in 1..n : events'[i] = events[i]
    BY <1>1, <1>3
  <2> HIDE DEF n
  <2>2. \A i \in DOMAIN events' : events'[i].expectedVersion < version'
    BY <1>1, <1>2, <2>1 DEF VersionsUsed, n
  <2>3. OneCommandPerVersion'
    BY <1>1, <1>2, <1>3, <2>1 DEF VersionsUsed, OneCommandPerVersion, n
  <2> QED BY <1>1, <1>2, <1>3, <2>2, <2>3 DEF VersionsUsed
<1>4. CASE transitions' = Append(transitions, row) /\ UNCHANGED events
  <2> DEFINE n == Len(transitions)
  <2>1. /\ DOMAIN transitions' = 1..(n + 1) /\ transitions'[n + 1] = row
        /\ \A i \in 1..n : transitions'[i] = transitions[i]
    BY <1>1, <1>4
  <2> HIDE DEF n
  <2>2. \A i \in DOMAIN transitions' : transitions'[i].expectedVersion < version'
    BY <1>1, <1>2, <2>1 DEF VersionsUsed, n
  <2>3. OneCommandPerVersion'
    BY <1>1, <1>2, <1>4, <2>1 DEF VersionsUsed, OneCommandPerVersion, n
  <2> QED BY <1>1, <1>2, <1>4, <2>2, <2>3 DEF VersionsUsed
<1> QED BY <1>3, <1>4

LEMMA VersionsInvariant == Spec => [](Reschedulers = {} => VersionsUsed)
<1> DEFINE I == Reschedulers = {} => VersionsUsed
<1>1. Init => I
  BY DEF Init, VersionsUsed, OneCommandPerVersion
<1>2. TypeOK /\ OnlyNewestUnrevoked /\ I /\ [Next]_vars => I'
  <2> SUFFICES ASSUME TypeOK, OnlyNewestUnrevoked, VersionsUsed, Reschedulers = {}, [Next]_vars
               PROVE  VersionsUsed'
    OBVIOUS
  <2>1. TypeOK'
    BY TypeInductive
  <2>2. ASSUME UNCHANGED <<events, transitions, version>>
        PROVE  VersionsUsed'
    BY <2>2 DEF VersionsUsed, OneCommandPerVersion
  <2>3. CASE ScoreStep
    <3>1. PICK row : NewEvent(row)
      BY <2>3, ScoreStepRow
    <3>2. version' = version + 1 /\ UNCHANGED transitions
      BY <2>3, ScoreStepRow
    <3> QED BY <2>1, <3>1, <3>2, VersionsStayDistinct DEF NewEvent
  <2>4. CASE TransitionStep \/ ManagementStep
    BY <2>1, <2>4, VersionRow, VersionsStayDistinct
  <2>5. CASE LeaseStep
    BY <2>2, <2>5, LeaseStepKeeps DEF gameVars
  <2>6. CASE UNCHANGED vars
    BY <2>2, <2>6 DEF vars, gameVars
  <2> QED BY <2>3, <2>4, <2>5, <2>6 DEF Next
<1> HIDE DEF I
<1>3. Spec => []I
  BY <1>1, <1>2, Typed, PTL DEF Spec
<1> QED BY <1>3 DEF I

\* Serializable commands never build on the same version: while no reschedule runs,
\* every committed command and every status change has expected a version of its own
\* (live-scoring.service.ts:64, 227, games.service.ts:315, docs/LIVE_SCORING.md:15).
THEOREM VersionsUsedOnce == Spec => [](Reschedulers = {} => OneCommandPerVersion)
<1>1. (Reschedulers = {} => VersionsUsed) => (Reschedulers = {} => OneCommandPerVersion)
  BY DEF VersionsUsed
<1> QED BY VersionsInvariant, <1>1, PTL
-----------------------------------------------------------------------------
\* The official result.

\* The announcement of an official result: nothing after message i is a new score.
AnnouncedAt(i) ==
  /\ i \in DOMAIN outbox
  /\ outbox[i] \in {"game.finalized", "game.forfeited"}
  /\ \A j \in i..Len(outbox) : outbox[j] # "game.score-updated"

\* A message that is no new score leaves an announcement standing, and one that
\* announces a result is an announcement.
LEMMA MessageAppended ==
  ASSUME TypeOK, NEW message \in Messages \ {"game.score-updated"},
         outbox' = Append(outbox, message),
         \/ message \in {"game.finalized", "game.forfeited"}
         \/ \E i \in DOMAIN outbox : AnnouncedAt(i)
  PROVE  OfficialResultAnnounced'
<1> DEFINE n == Len(outbox)
<1>1. /\ n \in Nat /\ DOMAIN outbox = 1..n /\ outbox \in Seq(Messages)
  BY Tables DEF TypeOK
<1>2. /\ DOMAIN outbox' = 1..(n + 1) /\ Len(outbox') = n + 1 /\ outbox'[n + 1] = message
      /\ \A i \in 1..n : outbox'[i] = outbox[i]
  BY <1>1
<1> HIDE DEF n
<1>3. CASE message \in {"game.finalized", "game.forfeited"}
  <2>1. \A j \in (n + 1)..(n + 1) : outbox'[j] # "game.score-updated"
    BY <1>1, <1>2
  <2> QED BY <1>1, <1>2, <1>3, <2>1 DEF OfficialResultAnnounced
<1>4. CASE \E i \in DOMAIN outbox : AnnouncedAt(i)
  <2>1. PICK i \in 1..n : AnnouncedAt(i)
    BY <1>1, <1>4
  <2>2. \A j \in i..(n + 1) : outbox'[j] # "game.score-updated"
    BY <1>1, <1>2, <2>1 DEF AnnouncedAt, n
  <2> QED BY <1>1, <1>2, <2>1, <2>2 DEF AnnouncedAt, OfficialResultAnnounced
<1> QED BY <1>3, <1>4

\* Whatever overlaps, a game with an official result has been announced with the score
\* it has: finalization and forfeit write their message in the transaction that makes
\* the result official, and only a live game's score changes otherwise
\* (live-scoring.service.ts:288-301, games.service.ts:317-384).
THEOREM ResultsAnnounced == Spec => []OfficialResultAnnounced
<1>1. Init => OfficialResultAnnounced
  BY DEF Init, OfficialResultAnnounced
<1>2. TypeOK /\ OnlyNewestUnrevoked /\ OfficialResultAnnounced /\ [Next]_vars
        => OfficialResultAnnounced'
  <2> SUFFICES ASSUME TypeOK, OnlyNewestUnrevoked, OfficialResultAnnounced, [Next]_vars
               PROVE  OfficialResultAnnounced'
    OBVIOUS
  <2>1. status \in {"FINAL", "FORFEITED"} => \E i \in DOMAIN outbox : AnnouncedAt(i)
    BY DEF OfficialResultAnnounced, AnnouncedAt
  <2>2. ASSUME status' \notin {"FINAL", "FORFEITED"}
        PROVE  OfficialResultAnnounced'
    BY <2>2 DEF OfficialResultAnnounced
  <2>3. ASSUME UNCHANGED <<status, outbox>>
        PROVE  OfficialResultAnnounced'
    BY <2>3 DEF OfficialResultAnnounced
  <2>4. CASE ScoreStep
    BY <2>2, <2>4, ScoreStepRow
  <2>5. ASSUME NEW k, NEW u, NEW s, NEW v, NEW type \in TransitionTypes, NEW p, NEW elevated,
               Transition(k, u, s, v, type, p, elevated)
        PROVE  OfficialResultAnnounced'
    <3>1. status' = NextStatus(type) /\ outbox' = Append(outbox, TransitionAnnouncement(type))
      BY <2>5 DEF Transition, RecordTransition
    <3>2. CASE type = "GAME_FINALIZED"
      <4>1. TransitionAnnouncement(type) = "game.finalized"
        BY <3>2 DEF TransitionAnnouncement
      <4> QED BY <3>1, <4>1, MessageAppended DEF Messages
    <3>3. CASE type # "GAME_FINALIZED"
      BY <2>2, <3>1, <3>3 DEF NextStatus
    <3> QED BY <3>2, <3>3
  <2>6. ASSUME NEW k, NEW v, NEW new \in StatusChanges, NEW winner, SetStatus(k, v, new, winner)
        PROVE  OfficialResultAnnounced'
    <3>1. status' = new /\ outbox' = Append(outbox, Announcement[new])
      BY <2>6 DEF SetStatus, RecordTransition
    <3>2. CASE new = "FORFEITED"
      <4>1. Announcement[new] = "game.forfeited"
        BY <3>2 DEF Announcement
      <4> QED BY <3>1, <4>1, MessageAppended DEF Messages
    <3>3. CASE new # "FORFEITED"
      BY <2>2, <3>1, <3>3, LiveScoringAssumption
    <3> QED BY <3>2, <3>3
  <2>7. ASSUME NEW r, RescheduleCommit(r)
        PROVE  OfficialResultAnnounced'
    <3>1. status' = status /\ outbox' = Append(outbox, "game.schedule-changed")
      BY <2>7 DEF RescheduleCommit, RecordTransition
    <3>2. CASE status \in {"FINAL", "FORFEITED"}
      BY <2>1, <3>1, <3>2, MessageAppended DEF Messages
    <3>3. CASE status \notin {"FINAL", "FORFEITED"}
      BY <2>2, <3>1, <3>3
    <3> QED BY <3>2, <3>3
  <2>8. ASSUME NEW r, NEW k, NEW v, RescheduleRead(r, k, v) \/ RescheduleAbort(r)
        PROVE  OfficialResultAnnounced'
    BY <2>3, <2>8 DEF RescheduleRead, RescheduleAbort
  <2>9. CASE TransitionStep
    BY <2>5, <2>9 DEF TransitionStep
  <2>10. CASE ManagementStep
    <3>1. ASSUME NEW r \in Reschedulers, RescheduleAbort(r)
          PROVE  OfficialResultAnnounced'
      BY <2>8, <3>1
    <3> QED BY <2>6, <2>7, <2>8, <2>10, <3>1 DEF ManagementStep
  <2>11. CASE LeaseStep
    BY <2>3, <2>11, LeaseStepKeeps DEF gameVars
  <2>12. CASE UNCHANGED vars
    BY <2>3, <2>12 DEF vars, gameVars
  <2> QED BY <2>4, <2>9, <2>10, <2>11, <2>12 DEF Next
<1> QED BY <1>1, <1>2, Typed, PTL DEF Spec

\* A FINAL game is left alone by every operation: score commands need a live game,
\* transitions one in progress or an elevated caller, status changes any but a
\* FINAL one, and a reschedule in flight writes nothing of the result
\* (live-scoring.service.ts:59, 103, 318-391; games.service.ts:257-265, 317).
THEOREM FinalStands == Spec => FinalResultStands
<1> DEFINE result == <<score, forfeitWinner, periods, events, currentPeriod>>
           Stands == /\ UNCHANGED result
                     /\ status' = "FINAL" \/ (TRUE \in Elevations /\ status' = "PAUSED")
<1>1. ASSUME status = "FINAL", [Next]_vars
      PROVE  Stands
  <2>1. ASSUME NEW k, NEW u, NEW s, NEW v, NEW type \in TransitionTypes, NEW p,
               NEW elevated \in Elevations, Transition(k, u, s, v, type, p, elevated)
        PROVE  Stands
    <3>1. type = "GAME_REOPENED" /\ elevated
      BY <1>1, <2>1 DEF Transition, NextTransition, TransitionTypes, InProgress
    <3>2. status' = "PAUSED" /\ periods' = periods /\ currentPeriod' = currentPeriod
      BY <2>1, <3>1 DEF Transition, Starts, NextStatus, NextPeriod
    <3>3. UNCHANGED <<score, forfeitWinner, events>>
      BY <2>1 DEF Transition
    <3>4. TRUE \in Elevations
      BY <3>1, LiveScoringAssumption
    <3> QED BY <3>2, <3>3, <3>4
  <2>2. CASE TransitionStep
    BY <2>1, <2>2 DEF TransitionStep
  <2>3. ASSUME NEW r, NEW k, NEW v,
               RescheduleRead(r, k, v) \/ RescheduleCommit(r) \/ RescheduleAbort(r)
        PROVE  Stands
    BY <1>1, <2>3 DEF RescheduleRead, RescheduleCommit, RescheduleAbort
  <2>4. CASE ManagementStep
    <3>1. ASSUME NEW k, NEW v, NEW new, NEW winner PROVE ~SetStatus(k, v, new, winner)
      BY <1>1 DEF SetStatus
    <3> QED BY <2>3, <2>4, <3>1 DEF ManagementStep
  <2>5. CASE ScoreStep
    <3>1. ASSUME NEW k, NEW u, NEW s, NEW v, NEW p PROVE ~Scorable(k, u, s, v, p)
      BY <1>1 DEF Scorable
    <3> QED BY <2>5, <3>1 DEF ScoreStep, ScorePoints, ScoreCorrection
  <2>6. CASE LeaseStep
    BY <1>1, <2>6 DEF LeaseStep, AcquireLease, gameVars
  <2>7. CASE UNCHANGED vars
    BY <1>1, <2>7 DEF vars, gameVars
  <2> QED BY <1>1, <2>2, <2>4, <2>5, <2>6, <2>7 DEF Next
<1>2. [Next]_vars => [status = "FINAL" => Stands]_vars
  BY <1>1
<1> QED BY <1>2, PTL DEF Spec, FinalResultStands
-----------------------------------------------------------------------------
\* Periods.

\* Baskets are only ever booked in a period that was started and not ended: the
\* transitions that make the game live start the period they select, and the one
\* that ends a period pauses the game (live-scoring.service.ts:231-259, 318-368).
THEOREM LivePeriodOpen == Spec => []LiveInOpenPeriod
<1>1. Init => LiveInOpenPeriod
  BY DEF Init, LiveInOpenPeriod
<1>2. TypeOK /\ LiveInOpenPeriod /\ [Next]_vars => LiveInOpenPeriod'
  <2> SUFFICES ASSUME TypeOK, LiveInOpenPeriod, [Next]_vars PROVE LiveInOpenPeriod'
    OBVIOUS
  <2>1. ASSUME NEW k, NEW u, NEW s, NEW v, NEW type \in TransitionTypes, NEW p \in 0..MaxPeriod,
               NEW elevated, Transition(k, u, s, v, type, p, elevated)
        PROVE  LiveInOpenPeriod'
    <3> DEFINE period == NextPeriod(type, p)
    <3>1. CASE type \notin Starts
      <4>1. status' # "LIVE"
        BY <2>1, <3>1 DEF Transition, NextStatus
      <4> QED BY <4>1 DEF LiveInOpenPeriod
    <3>2. CASE type \in Starts
      <4>1. /\ period <= MaxPeriod /\ currentPeriod' = period
            /\ NextTransition(type, p, elevated)
            /\ periods' = [periods EXCEPT ![period].phase = "started"]
        BY <2>1, <3>2 DEF Transition, Starts
      <4>2. currentPeriod \in Nat /\ p \in Nat /\ RegulationPeriods \in Nat \ {0} /\ MaxPeriod \in Nat
        BY LiveScoringAssumption DEF TypeOK
      <4>3. CASE type = "GAME_STARTED"
        BY <4>1, <4>2, <4>3 DEF NextPeriod, Periods, TypeOK, Period, LiveInOpenPeriod
      <4>4. CASE type = "PERIOD_STARTED"
        <5>1. period \in Periods
          BY <4>1, <4>2, <4>4 DEF NextPeriod, NextTransition, Periods
        <5> QED BY <4>1, <5>1 DEF TypeOK, Period, LiveInOpenPeriod
      <4>5. CASE type = "OVERTIME_STARTED"
        <5>1. period \in Periods
          BY <4>1, <4>2, <4>5 DEF NextPeriod, NextTransition, Periods
        <5> QED BY <4>1, <5>1 DEF TypeOK, Period, LiveInOpenPeriod
      <4> QED BY <3>2, <4>3, <4>4, <4>5 DEF Starts
    <3> QED BY <3>1, <3>2
  <2>2. CASE TransitionStep
    BY <2>1, <2>2 DEF TransitionStep
  <2>3. ASSUME NEW k, NEW s, NEW v, NEW p \in Periods, NEW type, NEW team, NEW delta, NEW target,
               RecordEvent(k, s, v, p, type, team, delta, target)
        PROVE  LiveInOpenPeriod'
    <3>1. \A q \in Periods : periods'[q].phase = periods[q].phase
      BY <2>3 DEF RecordEvent, Book, TypeOK, Period
    <3> QED BY <2>3, <3>1 DEF RecordEvent, LiveInOpenPeriod
  <2>4. CASE ScoreStep
    BY <2>3, <2>4 DEF ScoreStep, ScorePoints, ScoreCorrection
  <2>5. ASSUME UNCHANGED <<status, currentPeriod, periods>>
        PROVE  LiveInOpenPeriod'
    BY <2>5 DEF LiveInOpenPeriod
  <2>6. ASSUME NEW k, NEW v, NEW new \in StatusChanges, NEW winner, SetStatus(k, v, new, winner)
        PROVE  LiveInOpenPeriod'
    BY <2>6, LiveScoringAssumption DEF SetStatus, LiveInOpenPeriod
  <2>7. ASSUME NEW r, NEW k, NEW v,
               RescheduleRead(r, k, v) \/ RescheduleCommit(r) \/ RescheduleAbort(r)
        PROVE  LiveInOpenPeriod'
    BY <2>5, <2>7 DEF RescheduleRead, RescheduleCommit, RescheduleAbort
  <2>8. CASE ManagementStep
    BY <2>6, <2>7, <2>8 DEF ManagementStep
  <2>9. CASE LeaseStep \/ UNCHANGED vars
    BY <2>5, <2>9 DEF LeaseStep, AcquireLease, vars, gameVars
  <2> QED BY <2>2, <2>4, <2>8, <2>9 DEF Next
<1> QED BY <1>1, <1>2, Typed, PTL DEF Spec
-----------------------------------------------------------------------------
\* The game implements its ledger.

\* An event records the version that its command has made.
EventVersions ==
  \A i \in DOMAIN events : events[i].resultingGameVersion = events[i].expectedVersion + 1

LEMMA EventVersionsInvariant == Spec => []EventVersions
<1>1. Init => EventVersions
  BY DEF Init, EventVersions
<1>2. TypeOK /\ OnlyNewestUnrevoked /\ EventVersions /\ [Next]_vars => EventVersions'
  <2> SUFFICES ASSUME TypeOK, OnlyNewestUnrevoked, EventVersions, [Next]_vars
               PROVE  EventVersions'
    OBVIOUS
  <2>1. TypeOK'
    BY TypeInductive
  <2>2. ASSUME UNCHANGED events
        PROVE  EventVersions'
    BY <2>2 DEF EventVersions
  <2>3. CASE ScoreStep
    <3>1. ASSUME NEW k, NEW s, NEW p, NEW type, NEW team, NEW delta, NEW target,
                 RecordEvent(k, s, version, p, type, team, delta, target)
          PROVE  EventVersions'
      <4> DEFINE row == events'[Len(events) + 1]
      <4>1. /\ events' = Append(events, row)
            /\ row.expectedVersion = version /\ row.resultingGameVersion = version + 1
        BY <2>1, <3>1, RecordedRow
      <4> HIDE DEF row
      <4>2. /\ DOMAIN events' = 1..(Len(events) + 1) /\ events'[Len(events) + 1] = row
            /\ \A i \in 1..Len(events) : events'[i] = events[i]
        BY <4>1, Tables DEF TypeOK
      <4> QED BY <4>1, <4>2, Tables DEF EventVersions
    <3>2. ASSUME NEW k, NEW u, NEW s, NEW v, NEW p, Scorable(k, u, s, v, p)
          PROVE  v = version
      BY <3>2 DEF Scorable
    <3> QED BY <2>3, <3>1, <3>2 DEF ScoreStep, ScorePoints, ScoreCorrection
  <2>4. CASE TransitionStep \/ ManagementStep
    BY <2>2, <2>4, TransitionRow
  <2>5. CASE LeaseStep
    BY <2>2, <2>5, LeaseStepKeeps DEF gameVars
  <2>6. CASE UNCHANGED vars
    BY <2>2, <2>6 DEF vars, gameVars
  <2> QED BY <2>3, <2>4, <2>5, <2>6 DEF Next
<1> QED BY <1>1, <1>2, Typed, PTL DEF Spec

\* The basket that an event stands for.
Basket(row) == [at |-> row.resultingGameVersion, team |-> row.team, points |-> row.pointsDelta]

\* Correctable, of any ledger.
CorrectableIn(table, i) ==
  /\ i \in DOMAIN table
  /\ table[i].pointsDelta > 0
  /\ \A j \in DOMAIN table : table[j].correctionOf # i

\* The baskets that count are those of the correctable events.
LEMMA CountedBaskets ==
  /\ \A b : b \in Counted <=> \E i \in DOMAIN events : CorrectableIn(events, i) /\ b = Basket(events[i])
  /\ \A b : b \in Counted' <=>
           \E i \in DOMAIN events' : CorrectableIn(events', i) /\ b = Basket(events'[i])
<1>1. \A b : b \in Counted <=> \E i \in DOMAIN events : CorrectableIn(events, i) /\ b = Basket(events[i])
  BY Zenon DEF Counted, Correctable, CorrectableIn, Basket
<1>2. \A b : b \in Counted' <=>
           \E i \in DOMAIN events' : CorrectableIn(events', i) /\ b = Basket(events'[i])
  BY Zenon DEF Counted, Correctable, CorrectableIn, Basket
<1> QED BY <1>1, <1>2

\* What becomes of each event's correctability when a row is appended.
LEMMA CorrectableAfter ==
  ASSUME TypeOK, LedgerInv, NEW row \in Event, events' = Append(events, row)
  PROVE  /\ DOMAIN events = 1..Len(events) /\ DOMAIN events' = 1..(Len(events) + 1)
         /\ Len(events) \in Nat /\ events'[Len(events) + 1] = row
         /\ \A i \in DOMAIN events : events'[i] = events[i]
         /\ \A i \in DOMAIN events :
              CorrectableIn(events', i) <=> CorrectableIn(events, i) /\ row.correctionOf # i
         /\ row.correctionOf # Len(events) + 1 =>
              (CorrectableIn(events', Len(events) + 1) <=> row.pointsDelta > 0)
<1> DEFINE n == Len(events)
<1>1. /\ n \in Nat /\ DOMAIN events = 1..n /\ DOMAIN events' = 1..(n + 1)
      /\ events'[n + 1] = row /\ \A i \in 1..n : events'[i] = events[i]
  BY Tables, Appended DEF TypeOK
<1>2. \A i \in 1..n : events[i].correctionOf # n + 1
  <2>1. \A i \in 1..n : \/ events[i].correctionOf = 0
                        \/ events[i].correctionOf \in 1..(i - 1)
    BY <1>1 DEF LedgerInv, EventFacts, CorrectionsUndoOnce
  <2> QED BY <1>1, <2>1
<1> HIDE DEF n
<1>3. \A i \in 1..n : CorrectableIn(events', i) <=> CorrectableIn(events, i) /\ row.correctionOf # i
  BY <1>1 DEF CorrectableIn
<1>4. row.correctionOf # n + 1 => (CorrectableIn(events', n + 1) <=> row.pointsDelta > 0)
  BY <1>1, <1>2 DEF CorrectableIn
<1> QED BY <1>1, <1>3, <1>4 DEF n

\* A basket adds itself to those that count, and any other event that corrects nothing
\* leaves them alone.
LEMMA CountedAfterEvent ==
  ASSUME TypeOK, LedgerInv, NEW row \in Event, events' = Append(events, row),
         row.correctionOf = 0
  PROVE  /\ row.pointsDelta > 0 => Counted' = Counted \cup {Basket(row)}
         /\ ~(row.pointsDelta > 0) => Counted' = Counted
<1> DEFINE n == Len(events)
<1>1. /\ n \in Nat /\ DOMAIN events = 1..n /\ DOMAIN events' = 1..(n + 1)
      /\ events'[n + 1] = row /\ \A i \in 1..n : events'[i] = events[i]
      /\ \A i \in 1..n : CorrectableIn(events', i) <=> CorrectableIn(events, i)
      /\ CorrectableIn(events', n + 1) <=> row.pointsDelta > 0
  BY CorrectableAfter
<1> HIDE DEF n
<1>2. \A b : b \in Counted <=> \E i \in 1..n : CorrectableIn(events, i) /\ b = Basket(events[i])
  BY <1>1, CountedBaskets
<1>3. \A b : b \in Counted' <=>
           \/ \E i \in 1..n : CorrectableIn(events, i) /\ b = Basket(events[i])
           \/ row.pointsDelta > 0 /\ b = Basket(row)
  <2>1. \A i : i \in 1..(n + 1) <=> i \in 1..n \/ i = n + 1
    BY <1>1
  <2>2. \A b : b \in Counted' <=>
             \E i \in 1..(n + 1) : CorrectableIn(events', i) /\ b = Basket(events'[i])
    BY <1>1, CountedBaskets
  <2> QED BY <1>1, <2>1, <2>2
<1> QED BY <1>2, <1>3

\* A correction takes the basket it corrects away from those that count, and no other:
\* each has a version of its own.
LEMMA CountedAfterCorrection ==
  ASSUME TypeOK, LedgerInv, VersionsUsed, EventVersions, NEW row \in Event,
         events' = Append(events, row), CorrectableIn(events, row.correctionOf),
         row.pointsDelta = -events[row.correctionOf].pointsDelta
  PROVE  /\ Basket(events[row.correctionOf]) \in Counted
         /\ Counted' = Counted \ {Basket(events[row.correctionOf])}
<1> DEFINE n == Len(events)
           target == row.correctionOf
           b0 == Basket(events[target])
<1>1. target \in DOMAIN events /\ events[target].pointsDelta > 0
  BY DEF CorrectableIn
<1>2. /\ n \in Nat /\ DOMAIN events = 1..n /\ DOMAIN events' = 1..(n + 1)
      /\ events'[n + 1] = row /\ \A i \in 1..n : events'[i] = events[i]
      /\ \A i \in 1..n : CorrectableIn(events', i) <=> CorrectableIn(events, i) /\ i # target
      /\ target # n + 1 => (CorrectableIn(events', n + 1) <=> row.pointsDelta > 0)
  BY CorrectableAfter
<1>3. ~CorrectableIn(events', n + 1)
  <2>1. events[target].pointsDelta \in Int
    BY <1>1, Tables DEF Event
  <2>2. target # n + 1 /\ ~(row.pointsDelta > 0)
    BY <1>1, <1>2, <2>1
  <2> QED BY <1>2, <2>2
<1>4. ASSUME NEW i \in 1..n, Basket(events[i]) = b0
      PROVE  i = target
  <2>1. events[i].resultingGameVersion = events[target].resultingGameVersion
    BY <1>4 DEF Basket
  <2>2. events[i].expectedVersion \in Nat /\ events[target].expectedVersion \in Nat
    BY <1>1, <1>2, Tables DEF Event
  <2>3. /\ events[i].resultingGameVersion = events[i].expectedVersion + 1
        /\ events[target].resultingGameVersion = events[target].expectedVersion + 1
    BY <1>1, <1>2 DEF EventVersions
  <2>4. events[i].expectedVersion = events[target].expectedVersion
    <3> DEFINE a == events[i].expectedVersion
               b == events[target].expectedVersion
    <3>1. a \in Nat /\ b \in Nat /\ a + 1 = b + 1
      BY <2>1, <2>2, <2>3
    <3> HIDE DEF a, b
    <3>2. a = b
      BY <3>1
    <3> QED BY <3>2 DEF a, b
  <2> QED BY <1>1, <1>2, <2>4 DEF VersionsUsed, OneCommandPerVersion
<1> HIDE DEF n, b0
<1>5. \A b : b \in Counted <=> \E i \in 1..n : CorrectableIn(events, i) /\ b = Basket(events[i])
  BY <1>2, CountedBaskets
<1>6. \A b : b \in Counted' <=>
           \E i \in 1..n : CorrectableIn(events, i) /\ i # target /\ b = Basket(events[i])
  <2>1. \A i : i \in 1..(n + 1) <=> i \in 1..n \/ i = n + 1
    BY <1>2
  <2>2. \A b : b \in Counted' <=>
             \E i \in 1..(n + 1) : CorrectableIn(events', i) /\ b = Basket(events'[i])
    BY <1>2, CountedBaskets
  <2> QED BY <1>2, <1>3, <2>1, <2>2
<1>7. b0 \in Counted
  BY <1>1, <1>2, <1>5 DEF b0
<1> QED BY <1>4, <1>5, <1>6, <1>7 DEF b0

\* The phases that statuses belong to, before and after a step.
LEMMA PhaseOf ==
  /\ status \in {"DRAFT", "SCHEDULED", "PAUSED"} => Phase = "pending"
  /\ status = "LIVE" => Phase = "live"
  /\ status = "FINAL" => Phase = "official"
  /\ status = "FORFEITED" => Phase = "awarded"
  /\ status \in {"POSTPONED", "CANCELLED", "ABANDONED"} => Phase = "withdrawn"
  /\ status' \in {"DRAFT", "SCHEDULED", "PAUSED"} => Phase' = "pending"
  /\ status' = "LIVE" => Phase' = "live"
  /\ status' = "FINAL" => Phase' = "official"
  /\ status' = "FORFEITED" => Phase' = "awarded"
  /\ status' \in {"POSTPONED", "CANCELLED", "ABANDONED"} => Phase' = "withdrawn"
  /\ UNCHANGED status => UNCHANGED Phase
  BY Zenon DEF Phase

\* A score command records a basket, takes one back, or is a note.
LEMMA ScoreStepImplements ==
  ASSUME TypeOK, OnlyNewestUnrevoked, LedgerInv, VersionsUsed, EventVersions, ScoreStep
  PROVE  Ledger!Next
<1>1. /\ Phase = "live" /\ UNCHANGED Phase /\ version' = version + 1
  BY ScoreStepRow, PhaseOf
<1>2. TypeOK'
  BY ScoreStepType
<1>3. score \in [Teams -> Nat] /\ NoTeam \notin Teams
  BY DEF TypeOK, Teams, NoTeam
<1>4. ASSUME NEW k, NEW u, NEW s, NEW v, NEW p, NEW type \in ScoreTypes, NEW team \in Teams,
             ScorePoints(k, u, s, v, p, type, team)
      PROVE  Ledger!Next
  <2> DEFINE row == events'[Len(events) + 1]
             points == Points[type]
             scorer == IF points = 0 THEN NoTeam ELSE team
  <2>1. RecordEvent(k, s, v, p, type, scorer, points, 0)
    BY <1>4 DEF ScorePoints
  <2>2. /\ events' = Append(events, row) /\ row \in Event
        /\ row.resultingGameVersion = version + 1 /\ row.team = scorer
        /\ row.pointsDelta = points /\ row.correctionOf = 0
    BY <1>2, <2>1, RecordedRow
  <2>3. score' = [t \in Teams |-> IF t = scorer THEN score[t] + points ELSE score[t]]
    BY <2>1 DEF RecordEvent, Book, Added
  <2>4. points \in 0..3
    BY <1>4, LiveScoringAssumption DEF ScorePoints, Points
  <2> HIDE DEF row, points
  <2>5. CASE points = 0
    <3>1. Counted' = Counted
      BY <2>2, <2>5, CountedAfterEvent
    <3>2. score' = score
      BY <1>3, <2>3, <2>5
    <3> QED BY <1>1, <3>1, <3>2 DEF Ledger!Next, Ledger!Note
  <2>6. CASE points # 0
    <3>1. points \in 1..3 /\ points > 0 /\ scorer = team
      BY <2>4, <2>6
    <3>2. Counted' = Counted \cup {[at |-> version + 1, team |-> team, points |-> points]}
      BY <2>2, <3>1, CountedAfterEvent DEF Basket
    <3>3. score' = [score EXCEPT ![team] = @ + points]
      BY <1>3, <2>3, <3>1
    <3>4. Ledger!Record(team, points)
      BY <1>1, <3>2, <3>3 DEF Ledger!Record
    <3> QED BY <1>1, <3>1, <3>4 DEF Ledger!Next
  <2> QED BY <2>5, <2>6
<1>5. ASSUME NEW k, NEW u, NEW s, NEW v, NEW p, NEW target,
             ScoreCorrection(k, u, s, v, p, target)
      PROVE  Ledger!Next
  <2> DEFINE row == events'[Len(events) + 1]
             basket == Basket(events[target])
  <2>1. /\ Correctable(target)
        /\ RecordEvent(k, s, v, p, "CORRECTION", events[target].team,
                       -events[target].pointsDelta, target)
    BY <1>5 DEF ScoreCorrection
  <2>2. /\ events' = Append(events, row) /\ row \in Event
        /\ row.pointsDelta = -events[target].pointsDelta /\ row.correctionOf = target
    BY <1>2, <2>1, RecordedRow
  <2> HIDE DEF row
  <2>3. basket \in Counted /\ Counted' = Counted \ {basket}
    BY <2>1, <2>2, CountedAfterCorrection DEF Correctable, CorrectableIn
  <2>4. basket.team = events[target].team /\ basket.points = events[target].pointsDelta
    BY DEF Basket
  <2>5. events[target].pointsDelta \in Int
    BY <2>1, Tables DEF Correctable, Event
  <2>6. score' = [t \in Teams |-> IF t = events[target].team
                                  THEN score[t] + -events[target].pointsDelta ELSE score[t]]
    BY <2>1 DEF RecordEvent, Book, Added
  <2> HIDE DEF basket
  <2>7. score' = [score EXCEPT ![basket.team] = @ - basket.points]
    BY <1>3, <2>4, <2>5, <2>6
  <2>8. Ledger!TakeBack(basket)
    BY <1>1, <2>3, <2>7 DEF Ledger!TakeBack
  <2> QED BY <1>1, <2>3, <2>8 DEF Ledger!Next
<1> QED BY <1>4, <1>5 DEF ScoreStep

\* A transition moves the game to another phase, or is a note.
LEMMA TransitionStepImplements ==
  ASSUME TypeOK, TransitionStep
  PROVE  Ledger!Next
<1> SUFFICES ASSUME NEW k, NEW u, NEW s, NEW v, NEW type \in TransitionTypes, NEW p,
                    NEW elevated \in Elevations, Transition(k, u, s, v, type, p, elevated)
             PROVE  Ledger!Next
  BY DEF TransitionStep
<1>1. /\ UNCHANGED <<score, events>> /\ version' = version + 1
      /\ NextTransition(type, p, elevated) /\ status' = NextStatus(type)
  BY DEF Transition
<1>2. UNCHANGED Counted
  BY <1>1 DEF Counted, Correctable
<1>3. Phase \in {"pending", "live"} \/ (Phase = "official" /\ TRUE \in Elevations)
  <2>1. \/ status \in {"SCHEDULED", "LIVE", "PAUSED"}
        \/ status = "FINAL" /\ type = "GAME_REOPENED" /\ elevated
    BY <1>1 DEF NextTransition, InProgress, TransitionTypes
  <2>2. Elevations \subseteq BOOLEAN
    BY LiveScoringAssumption
  <2> QED BY <2>1, <2>2, PhaseOf
<1>4. Phase = "official" => Phase' = "pending"
  <2> SUFFICES ASSUME Phase = "official" PROVE Phase' = "pending"
    OBVIOUS
  <2>1. status = "FINAL"
    BY PhaseOf DEF TypeOK, Statuses
  <2>2. type = "GAME_REOPENED"
    BY <1>1, <2>1 DEF NextTransition, InProgress, TransitionTypes
  <2> QED BY <1>1, <2>2, PhaseOf DEF NextStatus, Starts
<1>5. Phase' \in {"pending", "live", "official"}
  <2>1. status' \in {"LIVE", "FINAL", "PAUSED"}
    BY <1>1 DEF NextStatus
  <2> QED BY <2>1, PhaseOf
<1>6. Ledger!Move(Phase')
  BY <1>1, <1>2, <1>3, <1>4 DEF Ledger!Move
<1> QED BY <1>1, <1>5, <1>6 DEF Ledger!Next

\* A status set by hand withdraws the game or awards it.
LEMMA ManagementStepImplements ==
  ASSUME TypeOK, Reschedulers = {}, ManagementStep
  PROVE  Ledger!Next
<1>1. PICK k \in RequestKeys, v \in KnownVersions, new \in StatusChanges, winner \in Teams :
        SetStatus(k, v, new, winner)
  BY DEF ManagementStep
<1>2. /\ UNCHANGED events /\ version' = version + 1 /\ status # "FINAL" /\ status' = new
  BY <1>1 DEF SetStatus
<1>3. UNCHANGED Counted
  BY <1>2 DEF Counted, Correctable
<1>4. Phase # "official"
  BY <1>2, PhaseOf DEF TypeOK, Statuses
<1>5. CASE new = "FORFEITED"
  <2>1. Phase' = "awarded"
    BY <1>2, <1>5, PhaseOf
  <2>2. score' = [t \in Teams |-> IF t = winner THEN ForfeitFor ELSE ForfeitAgainst]
    BY <1>1, <1>5 DEF SetStatus
  <2>3. Ledger!Award
    BY <1>3, <1>4, <2>1, <2>2 DEF Ledger!Award
  <2> QED BY <1>2, <2>3 DEF Ledger!Next
<1>6. CASE new # "FORFEITED"
  <2>1. Phase' = "withdrawn"
    <3>1. new \in {"POSTPONED", "CANCELLED", "ABANDONED"}
      BY <1>6, LiveScoringAssumption
    <3> QED BY <1>2, <3>1, PhaseOf
  <2>2. UNCHANGED score
    BY <1>1, <1>6 DEF SetStatus
  <2>3. Ledger!Move("withdrawn")
    BY <1>3, <1>4, <2>1, <2>2 DEF Ledger!Move
  <2> QED BY <1>2, <2>3 DEF Ledger!Next
<1> QED BY <1>5, <1>6

\* While no reschedule runs, the game is the ledger that GameLedger promises: its
\* version moves by one with every change, a basket counts from the event that records
\* it until the correction that takes it back, the tally moves with the baskets or is
\* replaced by a forfeit, and the phases follow one another as its readers rely on
\* (live-scoring.service.ts:21-391, games.service.ts:293-389).
THEOREM ImplementsLedger == Spec /\ Reschedulers = {} => KeepsLedger
<1> DEFINE Quiet == Reschedulers = {}
<1>1. Init => Ledger!Init
  <2> SUFFICES ASSUME Init PROVE Ledger!Init
    OBVIOUS
  <2>1. Counted = {}
    BY DEF Init, Counted
  <2>2. Phase = "pending"
    BY PhaseOf DEF Init
  <2> QED BY <2>1, <2>2 DEF Init, Ledger!Init
<1>2. /\ TypeOK /\ OnlyNewestUnrevoked /\ LedgerInv /\ EventVersions /\ Quiet
      /\ (Reschedulers = {} => VersionsUsed) /\ [Next]_vars
      => [Ledger!Next]_Ledger!ledgerVars
  <2> SUFFICES ASSUME TypeOK, OnlyNewestUnrevoked, LedgerInv, EventVersions, VersionsUsed,
                      Reschedulers = {}, [Next]_vars
               PROVE  Ledger!Next \/ UNCHANGED Ledger!ledgerVars
    OBVIOUS
  <2>1. ASSUME UNCHANGED gameVars
        PROVE  UNCHANGED Ledger!ledgerVars
    <3>1. UNCHANGED Counted
      BY <2>1 DEF gameVars, Counted, Correctable
    <3> QED BY <2>1, <3>1, PhaseOf DEF gameVars, Ledger!ledgerVars
  <2>2. CASE LeaseStep
    BY <2>1, <2>2, LeaseStepKeeps
  <2>3. CASE UNCHANGED vars
    BY <2>1, <2>3 DEF vars
  <2> QED
    BY <2>2, <2>3, ScoreStepImplements, TransitionStepImplements, ManagementStepImplements
    DEF Next
<1>3. Quiet => Quiet'
  OBVIOUS
<1> HIDE DEF Quiet
<1>4. Spec /\ Quiet => Ledger!Spec
  BY <1>1, <1>2, <1>3, Typed, LedgerInvariant, VersionsInvariant, EventVersionsInvariant, PTL
  DEF Spec, Ledger!Spec
<1> QED BY <1>4 DEF Quiet, KeepsLedger
-----------------------------------------------------------------------------
\* The score and the ledger.

LEMMA FiniteTables ==
  ASSUME TypeOK
  PROVE  /\ IsFiniteSet(Periods)
         /\ \A t : IsFiniteSet(EventsOf(t)) /\ Len(events) + 1 \notin EventsOf(t)
<1>1. IsFiniteSet(1..Len(events)) /\ IsFiniteSet(Periods)
  BY Tables, FS_Interval, LiveScoringAssumption DEF Periods
<1>2. \A t : EventsOf(t) \in SUBSET (1..Len(events))
  BY Tables DEF EventsOf
<1>3. \A t : IsFiniteSet(EventsOf(t))
  BY <1>1, <1>2, FS_Subset
<1> QED BY <1>1, <1>2, <1>3, Tables

\* An event adds its points to what is recorded for its team.
LEMMA RecordedAfter ==
  ASSUME TypeOK, NEW row \in Event, events' = Append(events, row), NEW t \in Teams
  PROVE  Recorded(t)' = IF row.team = t THEN row.pointsDelta + Recorded(t) ELSE Recorded(t)
<1> DEFINE n == Len(events) + 1
           old == [i \in DOMAIN events |-> events[i].pointsDelta]
           new == [i \in DOMAIN events' |-> events'[i].pointsDelta]
           mine == EventsOf(t)
<1>1. /\ DOMAIN events = 1..Len(events) /\ DOMAIN events' = 1..n /\ Len(events) \in Nat
      /\ events'[n] = row /\ \A i \in 1..Len(events) : events'[i] = events[i]
      /\ \A i \in 1..Len(events) : events[i] \in Event
  BY Appended, Tables DEF TypeOK
<1>2. IsFiniteSet(mine) /\ n \notin mine
  BY FiniteTables
<1>3. mine \subseteq 1..Len(events)
  BY <1>1 DEF EventsOf
<1>4. \A i \in mine : new[i] = old[i] /\ new[i] \in Int
  <2>1. \A i \in 1..Len(events) : events'[i].pointsDelta = events[i].pointsDelta
                                  /\ events[i].pointsDelta \in Int
    BY <1>1 DEF Event
  <2> HIDE DEF mine
  <2> QED BY <1>1, <1>3, <2>1
<1>5. new[n] = row.pointsDelta /\ new[n] \in Int
  BY <1>1 DEF Event
<1>6. EventsOf(t)' = IF row.team = t THEN mine \cup {n} ELSE mine
  BY <1>1 DEF EventsOf
<1>7. Recorded(t)' = SumFunctionOnSet(new, EventsOf(t)') /\ Recorded(t) = SumFunctionOnSet(old, mine)
  BY DEF Recorded
<1> HIDE DEF old, new, mine, n
<1>8. SumFunctionOnSet(new, mine) = SumFunctionOnSet(old, mine)
  BY <1>2, <1>4, SumSame
<1>9. SumFunctionOnSet(new, mine \cup {n}) = new[n] + SumFunctionOnSet(new, mine)
  BY <1>2, <1>4, <1>5, SumAdd
<1> QED BY <1>5, <1>6, <1>7, <1>8, <1>9

\* The points booked in a period add to the total of the periods.
LEMMA BookedAfter ==
  ASSUME TypeOK, NEW p \in Periods, NEW t \in Teams, NEW team, NEW delta \in Int,
         periods' = [periods EXCEPT ![p].score = Added(@, team, delta)]
  PROVE  Booked(t)' = IF team = t THEN delta + Booked(t) ELSE Booked(t)
<1> DEFINE old == [q \in Periods |-> periods[q].score[t]]
           new == [q \in Periods |-> periods'[q].score[t]]
<1>1. IsFiniteSet(Periods)
  BY FiniteTables
<1>2. \A q \in Periods : periods[q].score \in [Teams -> Nat] /\ periods[q].score[t] \in Int
  BY DEF TypeOK, Period
<1>3. \A q \in Periods \ {p} : periods'[q] = periods[q]
  BY DEF TypeOK
<1>4. periods'[p].score[t] = IF team = t THEN periods[p].score[t] + delta ELSE periods[p].score[t]
  BY DEF TypeOK, Period, Added
<1>5. old[p] = periods[p].score[t] /\ new[p] = periods'[p].score[t]
  OBVIOUS
<1>6. \A q \in Periods : old[q] \in Int /\ new[q] \in Int
  BY <1>2, <1>3, <1>4
<1>7. \A q \in Periods \ {p} : old[q] = new[q]
  BY <1>3
<1>8. Booked(t) = SumFunctionOnSet(old, Periods) /\ Booked(t)' = SumFunctionOnSet(new, Periods)
  BY DEF Booked, SumFunction
<1> HIDE DEF old, new
<1>9. SumFunctionOnSet(new, Periods) = SumFunctionOnSet(old, Periods) + (new[p] - old[p])
  BY <1>1, <1>6, <1>7, SumChange
<1>10. SumFunctionOnSet(old, Periods) \in Int /\ old[p] \in Int
  BY <1>1, <1>6, SumType
<1> QED BY <1>4, <1>5, <1>8, <1>9, <1>10

\* A score command keeps game, periods and ledger in step.
LEMMA RecordEventBalances ==
  ASSUME TypeOK, TypeOK', ScoreMatchesLedger, NEW k, NEW s, NEW v, NEW p \in Periods, NEW type,
         NEW team, NEW delta \in Int, NEW target,
         RecordEvent(k, s, v, p, type, team, delta, target)
  PROVE  ScoreMatchesLedger'
<1> DEFINE row == events'[Len(events) + 1]
<1>1. /\ events' = Append(events, row) /\ row \in Event
      /\ row.team = team /\ row.pointsDelta = delta
  BY RecordedRow
<1>2. SUFFICES ASSUME NEW t \in Teams
               PROVE  /\ Recorded(t)' = Booked(t)'
                      /\ forfeitWinner' = NoTeam => score'[t] = Recorded(t)'
  BY DEF ScoreMatchesLedger
<1> HIDE DEF row
<1>3. Recorded(t)' = IF team = t THEN delta + Recorded(t) ELSE Recorded(t)
  BY <1>1, RecordedAfter
<1>4. Booked(t)' = IF team = t THEN delta + Booked(t) ELSE Booked(t)
  BY BookedAfter DEF RecordEvent, Book
<1>5. score'[t] = IF team = t THEN score[t] + delta ELSE score[t]
  BY DEF RecordEvent, Book, Added
<1>6. Recorded(t) = Booked(t) /\ (forfeitWinner = NoTeam => score[t] = Recorded(t))
  BY DEF ScoreMatchesLedger
<1>7. forfeitWinner' = forfeitWinner /\ score[t] \in Int
  BY DEF RecordEvent, TypeOK
<1> QED BY <1>3, <1>4, <1>5, <1>6, <1>7

\* Whatever leaves the scores, the winner and the events alone keeps the balance, and
\* so does a forfeit.
LEMMA OthersBalance ==
  ASSUME TypeOK, ScoreMatchesLedger, UNCHANGED events,
         \A q \in Periods : periods'[q].score = periods[q].score,
         \/ UNCHANGED <<score, forfeitWinner>>
         \/ forfeitWinner' # NoTeam
  PROVE  ScoreMatchesLedger'
<1>1. SUFFICES ASSUME NEW t \in Teams
               PROVE  /\ Recorded(t)' = Booked(t)'
                      /\ forfeitWinner' = NoTeam => score'[t] = Recorded(t)'
  BY DEF ScoreMatchesLedger
<1>2. Recorded(t)' = Recorded(t)
  BY DEF Recorded, EventsOf
<1>3. [q \in Periods |-> periods'[q].score[t]] = [q \in Periods |-> periods[q].score[t]]
  OBVIOUS
<1>4. Booked(t)' = Booked(t)
  BY <1>3 DEF Booked
<1> QED BY <1>2, <1>4 DEF ScoreMatchesLedger

\* The score shown to everybody is what the append-only ledger says, and what the
\* periods add up to, after any commands, corrections, reschedules and status
\* changes; only a forfeit replaces it (live-scoring.service.ts:107-177,
\* games.service.ts:316-330).
THEOREM ScoreIsLedger == Spec => []ScoreMatchesLedger
<1>1. Init => ScoreMatchesLedger
  <2> SUFFICES ASSUME Init, NEW t \in Teams
               PROVE  Recorded(t) = 0 /\ Booked(t) = 0 /\ score[t] = 0
    BY DEF ScoreMatchesLedger
  <2>1. EventsOf(t) = {}
    BY DEF Init, EventsOf
  <2>2. Recorded(t) = 0
    BY <2>1, SumEmpty DEF Recorded
  <2>3. IsFiniteSet(Periods)
    BY FS_Interval, LiveScoringAssumption DEF Periods
  <2>4. \A q \in Periods : [r \in Periods |-> periods[r].score[t]][q] = 0
    BY DEF Init
  <2>5. Booked(t) = 0
    BY <2>3, <2>4, SumZero DEF Booked, SumFunction
  <2> QED BY <2>2, <2>5 DEF Init
<1>2. TypeOK /\ TypeOK' /\ ScoreMatchesLedger /\ [Next]_vars => ScoreMatchesLedger'
  <2> SUFFICES ASSUME TypeOK, TypeOK', ScoreMatchesLedger, [Next]_vars
               PROVE  ScoreMatchesLedger'
    OBVIOUS
  <2>1. CASE ScoreStep
    <3>1. PICK k \in ScoreKeys, u \in Scorekeepers, s \in DOMAIN leases, v \in KnownVersions,
               p \in Periods :
            \/ \E type \in ScoreTypes, team \in Teams : ScorePoints(k, u, s, v, p, type, team)
            \/ \E target \in DOMAIN events : ScoreCorrection(k, u, s, v, p, target)
      BY <2>1 DEF ScoreStep
    <3>2. ASSUME NEW type \in ScoreTypes, NEW team \in Teams,
                 ScorePoints(k, u, s, v, p, type, team)
          PROVE  ScoreMatchesLedger'
      <4>1. Points[type] \in Int
        BY <3>2, LiveScoringAssumption DEF ScorePoints, Points
      <4> QED BY <3>2, <4>1, RecordEventBalances DEF ScorePoints
    <3>3. ASSUME NEW target \in DOMAIN events, ScoreCorrection(k, u, s, v, p, target)
          PROVE  ScoreMatchesLedger'
      <4>1. -events[target].pointsDelta \in Int
        BY Tables DEF Event
      <4> QED BY <3>3, <4>1, RecordEventBalances DEF ScoreCorrection
    <3> QED BY <3>1, <3>2, <3>3
  <2>2. ASSUME NEW k, NEW u, NEW s, NEW v, NEW type \in TransitionTypes, NEW p,
               NEW elevated, Transition(k, u, s, v, type, p, elevated)
        PROVE  ScoreMatchesLedger'
    <3>1. \A q \in Periods : periods'[q].score = periods[q].score
      BY <2>2 DEF Transition, TypeOK, Period
    <3> QED BY <2>2, <3>1, OthersBalance DEF Transition
  <2>3. ASSUME NEW k, NEW v, NEW new, NEW winner \in Teams, SetStatus(k, v, new, winner)
        PROVE  ScoreMatchesLedger'
    <3>1. winner # NoTeam
      BY DEF Teams, NoTeam
    <3> QED BY <2>3, <3>1, OthersBalance DEF SetStatus
  <2>4. ASSUME UNCHANGED <<score, forfeitWinner, periods, events>>
        PROVE  ScoreMatchesLedger'
    BY <2>4, OthersBalance
  <2>5. CASE TransitionStep
    BY <2>2, <2>5 DEF TransitionStep
  <2>6. CASE ManagementStep
    BY <2>3, <2>4, <2>6 DEF ManagementStep, RescheduleRead, RescheduleCommit, RescheduleAbort
  <2>7. CASE LeaseStep \/ UNCHANGED vars
    BY <2>4, <2>7 DEF LeaseStep, AcquireLease, vars, gameVars
  <2> QED BY <2>1, <2>5, <2>6, <2>7 DEF Next
<1> QED BY <1>1, <1>2, Typed, PTL DEF Spec
=============================================================================
