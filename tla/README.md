# Verification of the basketball tournament platform

TLA+ specifications of the platform's API (`apps/api`), its worker, and the clients that keep state of
their own. The modules model what handlers, background processes and clients do, TLC checks them on
small instances, and the TLA+ proof system checks theorems about them for every instance. Paths below
are relative to `src/`; `PROJECT.json` lists components, runs, mutants, hazards and theorems, and maps
every definition to the lines it stands for.

## 1. The system

A NestJS API and a worker process share a PostgreSQL database (Prisma), a BullMQ queue in Redis and
an S3 bucket. Scorekeepers use a Next.js console, organizers the same portal, fans a Flutter app that
watches games over Socket.IO. Concurrency is between requests (any number, in several API processes),
between processes (each API and worker process runs an outbox dispatcher), between workers' slots, and
between the messages that clients have under way. Most transactions run at READ COMMITTED and update by
id what they have read before; only live scoring, lease acquisition, status changes and bracket
generation are serializable.

| Component | State | Operations | Hard behaviour | What makes it correct |
| --- | --- | --- | --- | --- |
| Scoring lease, `live-scoring/scoring-lease.service.ts` | `ScoringLease` rows, `GameAssignment` | acquire (serializable, advisory lock), heartbeat (read, then update by id), assertValid | expiry at any moment, take-over, late heartbeats | acquire meets its unique index only when a lease runs out between its two clock reads; two sessions' events never interleave |
| Live scoring, `live-scoring.service.ts`, `score-state.ts` | `Game`, `GamePeriod`, `GameScoreEvent`, `GameStateTransition`, outbox rows | score command, correction, eight transitions | commands for the same version, repeats, corrections across periods, reopening | the score is what the ledger adds up to; one command per version; a final result stands |
| Game management, `games/games.service.ts` | the same rows, `Standing`, `StandingSnapshot` | fixtures, brackets, assignment, reschedule, status, standings, manual ranks | reschedule and recalculation read before they write | the table belongs to the newest results, and its ranking is recorded |
| Competition rules, `competition/*.ts` | none (pure) | standings and tie-breaks, circle method, brackets | ties, byes, odd numbers | complete schedules, brackets of exactly the teams given, a ranking without ties |
| Outbox and jobs, `jobs/*.ts` | `OutboxEvent`, queue jobs, `BackgroundJobRecord` | dispatcher: claim, add, mark; consumer and handler | crash between any two statements, silent workers, retries | a row has one owner and is never acknowledged without its job; every event is settled |
| Realtime gateway and clients, `live-scoring.gateway.ts`, `apps/mobile/lib`, the console's page | rooms, providers, the service's current game, pages | join, broadcast, snapshot, merge; click, settle | join against broadcast, reordering, lost answers | what is played never falls back on the screen and catches up; nothing is counted twice |
| Sessions, `auth/*`, `api_client.dart`, `api-client.ts` | `User`, `Session` rows, tokens, what clients hold | register, verify, login, refresh, reset, logout, data requests | refresh against revocation, lost answers, tabs | one active session in a sign-in; signing out reaches everybody |
| Fans, notifications, privacy, `fans/*`, `notifications/*`, `jobs/job-handler.service.ts` | favourites, devices, preferences, `NotificationDelivery`, `DataRequest` | upserts; notify; export and delete | deletion against requests that have passed the guard, late and repeated jobs | nothing personal remains; no change is swallowed |
| Authorization and invitations, `authorization/*`, `access/*`, `invitations/*` | memberships, roles with scope and expiry, invitations | permission check, lists, create, accept, assign | two acceptances at once | an invitation gives its role once |
| Tournament management, `management/*` and the portal's pages | tournament, applications, corrections, players, rosters | apply, decide, resolve, edit, submit, review | decisions and edits that overlap | decisions stand; a review is about what the reviewer saw |
| Media storage, `storage/*` | `MediaAsset`, the team's logo | request, complete, replace, clean up | two replacements at once | old logos go away, the current one stays |
| Platform services | none | mail, S3, Redis, tokens, health | none | |

Components interact through database rows (a lease is checked inside the scoring transaction, an
outbox row is written by the transaction it tells of), through the queue (dispatcher to handler) and
through direct calls (the handler calls `recalculateStandings`; the controller broadcasts after commit).

## 2. Modules

Five groups, each a state of its own whose modules extend one another because their handlers read each
other's rows:

| Group | Modules | Composition |
| --- | --- | --- |
| Scoring | `ScoringLease`, `LiveScoring`, `GameLedger` | `LiveScoring` extends the lease, and implements the abstract `GameLedger` |
| Delivery | `Outbox` | |
| Stage | `CompetitionRules`, `Stage` | `Stage` applies the rules to its games |
| Live clients | `MatchCenter`, `ScoringConsole` | the console's commands change the game that the fans' screens show |
| Accounts | `Sessions`, `Accounts` | personal rows and jobs over the sessions of one account |
| Organization | `Access`, `Registration`, `Rosters`, `Media`, `Organization` | every area's requests pass the guard of `Access`; `Organization` lets them overlap |

`*_proofs` modules hold the theorems, `Sums` the lemmas about sums, induction and recursion that several of
them need, `MC*` modules the value and symmetry definitions of the runs. Some
operators are preceded by a *variant*: a plausible mistake in the code, which the specification never
uses. Putting it in the place of the operator breaks the property it is listed with in `PROJECT.json`.

Two conventions are shared by the models of READ COMMITTED handlers. A request is a record of what it
has read so far, and its later steps use that record, never the current row, exactly where the code
does. And where the code lets one request overtake another, a *history* variable (`overtaken`,
`unsettled`, `withdrawn`, `missed`, `strayed`, `rewound`, and `early` and `late` in requests and sessions)
records that it happened, so that a property can say precisely which overlap it excepts, instead of leaving
the overlap out. Other histories record what a property is about and no row keeps: `seen`, `entered`,
`changes`, `told`.

### ScoringLease, LiveScoring, GameLedger

`leases` is the sequence of `ScoringLease` rows of one game; the session id of a row is its index. A row's
`expiresAt` becomes a Boolean, `expired`, that `LeaseExpires` sets at any time and `HeartbeatWrite` clears:
every timing of the 45-second lease is covered. `HeartbeatRead` and `HeartbeatWrite` are the two statements
of `heartbeat`; `AssertValid` is a guard inside a scoring transaction. `acquire` is one serializable
transaction, but reads the clock twice: `Overdue` are the rows it revokes because they have run out at the
first look, `Held(lapsing)` the row it finds at the second, when those in `lapsing` have run out as well, and
if a row is `Left` by both, the partial unique index refuses the new one and only time has passed.

`applyScoreCommand`, `transition` and `setStatus` are SERIALIZABLE, so each is one action (`ScorePoints`
and `ScoreCorrection`, `Transition`, `SetStatus`); a refusal leaves the state alone. `reschedule` runs at
the default isolation: it reads (`RescheduleRead`), and later updates by id with what it computed from the
read (`RescheduleCommit`), or is rolled back (`RescheduleAbort`).

* Clients are unconstrained: any command arrives at any time with any session, version and period. Of the
  versions older than the current one only the latest is tried, as all are refused alike.
* The database's CHECKs (no negative total of game or period) are guards of `RecordEvent`; its unique
  index on idempotency keys is a guard of `RescheduleCommit`.
* A score command needs an active assignment but not an unexpired one (`applyScoreCommand` does not look
  at `expiresAt`).
* `Elevations` holds the values of `transition`'s parameter `elevated`. The controller only passes FALSE: no
  route reopens a game today. `{TRUE}` is checked as well, since the service implements it.

`GameLedger` is what a reader of the score is promised: a set of baskets that count, the tally, a phase
and a version that moves by one. `LiveScoring!Ledger` instantiates it with the events that could still
be corrected, the score, and five phases for the nine statuses.

### Outbox

Each event has its row's status, its job in the queue, its job record, and a count of how often its effect
happened. A dispatcher has a batch; a slot of the consumer has the event it handles and the next
statement of `handle`; every statement is a step of its own. `claim` is one transaction (`FOR UPDATE SKIP
LOCKED`), and which eligible rows it gets is left open. BullMQ is external: a job id that is still known is
ignored, a failed job is retried until `attempts`, a job whose lock is not renewed is given to another
slot and failed after too many times, completed jobs are forgotten.

### CompetitionRules and Stage

`CompetitionRules` has `calculateStandings` with its criteria and manual ranks, `generateRoundRobin` and
`generateSingleElimination` as operators on numbered teams. `Stage` creates games with them (`CreateFixture`,
`GenerateRoundRobin`, `GenerateBracket`), changes results (`Finish` for all of live scoring, `SetStatus`), and
recalculates: `ReadGames`, `ReadStandings` and `Rewrite` are the statements of `recalculateStandings`, started
by a message (`pending`), an organizer or an override (`FindRow`, `UpdateRow`). `Rewrite` also writes the
snapshot (`Recorded`): the ranked rows by `sourceVersion`, which replace those that an earlier recalculation
has left for the same version. `entered` holds the teams that each generator call was given. `GiveUp` is a unique index that
another rewrite has won, a row that is gone, or a stop; the queue delivers a message again.

### MatchCenter and ScoringConsole

A game's row is its version, what is played (status, scores and period, which the app's `_merge` takes over)
and its schedule (which it does not), the last two as counts of their changes. A commit puts a broadcast into
`unsent`, and requests broadcast in any order or stop before they do; `games.service.ts` never broadcasts: a
status set by hand is one step (`SetStatus`), a new date two, of which the second writes the version that the
first has read plus one (`RescheduleRead`, `RescheduleCommit`). A game whose version was thereby used again is
`rewound`. The app's screen loads a snapshot, seeds the
service, and watches the provider of its game and version; the socket connects, the gateway reads
(`JoinRead`), joins the room and answers (`JoinRoom`), and everything that arrives is merged. The console
adds its list, which is refetched behind the user's back, its lease, and commands that are on their way,
whatever the page believes.

### Sessions and Accounts

One account with all its sessions. A refresh reads the session (`RefreshRead`), revokes it, which locks its
row (`Rotate`), and inserts its successor (`RotateCommit`). A statement that revokes many sessions takes its
snapshot (`SignOutAll`, or reuse in `RefreshRead`), waits for locked rows, and commits (`RevokeCommit`,
`ReuseCommit`); rows inserted meanwhile are `late` for it. An app has one refresh under way
(`_refreshOnce`), the tabs of a browser share a cookie and know nothing of each other; both can lose answers
and be closed. `Accounts` adds favourites, devices and preferences, whose requests pass the guard before
they write, the deletion and export jobs, and the handler of notifications, which reads the game and its
followers in one step and writes in another. A request that the guard passed before the deletion is `early`.
Preferences are saved for the organization of a header or for all (`mutedHere`, `mutedGlobal`); only the first is looked
up for a game. The followed game changes by a command (`ChangeGame`) or by a reschedule in two steps; changes of
its status are left out.

### Access, Registration, Rosters, Media, Organization

The guard decides when a request arrives, its handler reads and writes later. Requests are offered as the
portal's pages offer them: `Offers...` operators are the buttons of the pages `teams`, `requests` and
`roster-review`, computed from the lists of `access.service.ts`, whose scope (`Lists`) is not the guard's
(`HasPermission`): it asks for no permission and ignores a role's expiry. The guard takes its resources from
the route and from the body of the request (`permission.guard.ts:56-60`), so the decision on a roster is
offered with and without a tournament (`OpenReview`). An operation that is one
statement conditional on a version or a unique index is one action; all others are a read and a commit.

## 3. Runs

Every run sets `CHECK_DEADLOCK FALSE`: games end, a stage is settled, a queue is empty, and the bounds on
requests stop the rest.

| Run | Question | Bounds, and why they are enough |
| --- | --- | --- |
| `scoring_leases` | Can two scorekeepers both write, and can a lease left behind keep the next one out? | two scorekeepers (symmetric), two leases, two events so that one may follow the other wrongly, one reschedule in flight |
| `scoring_ledger` | Does the score agree with the ledger, and does the game implement `GameLedger`? | one regulation period and one overtime, four events (two baskets and two corrections), three transitions, forfeits, reopening |
| `version_race` | Can two commands succeed for one version? Yes (violation). | one status change and one reschedule |
| `outbox_crashes` | Is a row owned twice, acknowledged without a job, recorded without an effect? | two events, two dispatchers, two slots; one failure of each kind, two attempts, one stall |
| `outbox_delivery` | Is every event settled while dispatchers survive? | one event (events do not interact in the queue), two failures of slots |
| `outbox_stuck` | Does a claim always end? No (violation). | one dispatcher stops once |
| `stage` | Are schedules complete, and is the table right when everything is handled? | schedules for 2 to 7 teams (odd, even, power of two or not); schedules of up to three games are played, with two changes of results, two overlapping handlers and one call of an organizer |
| `stage_head_to_head` | Does the direct game decide between two level teams? No (violation). | three teams, each of which plays the others |
| `live_clients` | Can a click count twice, the score shown fall or stay behind? | two pages, two games, three versions, four acts (clicks, losses, visits, status changes, reschedules): enough for a command between the two steps of a reschedule |
| `app_revisit` | Is the screen subscribed to its game? No (violation). | two games, three visits |
| `accounts` | What can overlapping refreshes, sign-outs and deletions leave behind? | an app and a browser with tabs, two handlers, five acts: enough for a sign-in, two refreshes of which one is lost, and a reset or a deletion; two changes of the game, which may be a command between the two steps of a reschedule |
| `organization` | Do decisions, grants, reviews and logos survive overlaps? | an administrator and a manager, two overlapping requests, four acts, two rows per table, two players and jerseys; behaviours cover two of the four areas, in every pair |

Properties that each run checks are listed in `PROJECT.json`; their statements are in the modules, each
with the exception that the code forces, if there is one. The exceptions are findings as much as the
properties are: without `~withdrawn` a cancelled forfeit breaks `AtRestCurrent`, without `overtaken` two
decisions break `DecisionsStand`, two acceptances `InvitationsGrantOnce`, two replacements
`OldLogosRetired`, and a late edit `ReviewHolds`; without `stopped` an app that is closed during a refresh
breaks `AppsKeepTheirSession`, and without `overtaken` a device is registered after the deletion. A browser is
not part of `AppsKeepTheirSession`: two tabs that refresh at once are told apart by nobody, and reuse
detection signs them out. Without `rewound`, a reschedule that puts the version back lets a repeated click
count (`CountedOnce`), a screen keep the older of two states with one version (`ShownNeverFalls`,
`InRoomUpToDate`), and the notice of the second use of a version be dropped (`EveryChangeNotified`). Without
`late`, and without its clause about logins, `SignOutReachesAll` is broken by a rotation or a login that
inserts its session after the statement's snapshot. And without the second look at the clock in
`CollisionsNeedALapse`, `acquire` would be said never to meet its index, which it does. `RankingRecorded` is
about the ranking shown now: an earlier one is overwritten with its version.

### Fairness

Safety runs use specifications without fairness, or do not depend on it.

* `Outbox!FairSpec` assumes weak fairness of each dispatcher (a timer starts it every second and its loop
  goes on), of each slot that has a job, of an idle slot while a job waits, and of the queue's stall check
  for a job that nobody runs. Failures, the success of a handler, and the queue's forgetting are not fair.
  `EventuallySettled` needs no dispatcher to stop between claim and mark; `outbox_stuck` shows why.
* `ScoringConsole!Fairness` assumes that something is delivered as long as something can be: requests that
  have committed broadcast, the gateway answers, the client connects again, and the app handles what
  arrives. Nobody is assumed to click, refresh or open a game. `CatchesUp` is checked under it.

## 4. Disagreements with the documentation

Four runs end in a counterexample to a sentence of the documentation (`PROJECT.json`, findings):

1. `docs/LIVE_SCORING.md:15`: two commands targeting the same version cannot both succeed. `reschedule`
   (`games.service.ts:250-265`) makes it possible (`version_race`).
2. `docs/ARCHITECTURE.md:36`: the dispatcher's states are recoverable. A row left in PROCESSING is not
   selected by `claim` again (`outbox_stuck`).
3. `docs/COMPETITION_RULES.md:15`: head-to-head uses only eligible tied teams. `buildHeadToHead` uses all
   results of the stage (`stage_head_to_head`).
4. `docs/LIVE_SCORING.md:23`: the live screen subscribes to a game room. A screen that finds its provider
   built does not (`app_revisit`).

Others were met while reading, and are modelled as the code has them:

* `docs/ARCHITECTURE.md:36` says that unique job keys make redelivery safe; the record is checked before
  the effect and written after it (`job-handler.service.ts:31`), so a slow slot repeats it.
* `docs/COMPETITION_RULES.md:7` says that reruns avoid duplicate fixtures; a second call adds all of them
  again. Line 22 says that draws are rejected when not allowed; `GAME_FINALIZED` does not look. Its last
  line asks for author and audit of manual ranks; the recalculation recreates rows without the author, and
  writes no audit entry.
* An abandoned game counts if it was forfeited before, since nothing removes the explanation. A manual rank
  of n moves its team before those without one, not to place n. The rank of a team whose only results are
  withdrawn is lost with its row, and an override whose request stops before its recalculation
  (`games.service.ts:524`) shows in no rank until the next one.
* Bracket games of later rounds stay DRAFT: no operation advances a winner.
  Line 15 says that a snapshot is recorded so that a displayed ranking can be reproduced. The upsert
  (`games.service.ts:483-498`) overwrites the rows of an earlier ranking under the same `sourceVersion`: after
  a manual rank, or when different games have the same sum of versions, which a reschedule that puts a version
  back allows as well (`Stage` has no reschedules).
* `docs/AUTHORIZATION_MATRIX.md` lets tournament managers review rosters. They see submitted rosters in
  their list, but neither the route of the decision nor the portal's page names a tournament, so the guard
  refuses them, unless the request carries a `tournamentId`, which the schema then strips.
* `docs/LIVE_SCORING.md:23` says that a command whose acknowledgement is uncertain is retried with its key,
  and that the app refetches the snapshot after a reconnection. The console makes a new key for every
  click, and the app joins again.
* The console offers its newest basket for correction even if it was corrected
  (`access.service.ts:257`), and is refused.
* `docs/AUTHENTICATION.md:11` says "logout-all and password change revoke all sessions", and the API answers
  "Sign in again on every device." (`auth.service.ts:326`, `:363`). A refresh that is rotating meanwhile inserts its
  new session after the statement's snapshot, and a login that had verified the old password inserts its own
  later still; both stay signed in.
* `apps/admin-web/app/(portal)/roster-review/page.tsx:51` says "Submitted rosters remain immutable until
  approved or returned for correction." An edit that has found the roster in editing writes its player after
  the submission (`management.service.ts:258`).
* `_merge` (`live_game_service.dart:64-73`) takes over status, scores, period and version: after a reschedule an
  open screen has the newest version and the old date.
* `acquire` reads the clock at `scoring-lease.service.ts:66` and again at `:70`. A lease that runs out in between is
  neither revoked nor found, and the request fails on `ScoringLease_one_active_per_game`; the next one succeeds.
* `docs/AUTHENTICATION.md:23` says that deletion revokes access immediately. The request changes the status,
  which the guard checks; sessions are revoked by the job.
* Messages about rosters and announcements carry no game and notify nobody. A muting preference is
  looked up for the game's organization: one that is saved for all organizations silences no game.
* A roster's version does not change when its players do, so a team may submit a lineup that its page has
  not shown.

## 5. Proofs

All theorems are checked by `tlapm` for all values of the constants that satisfy the named assumptions.
Nearly every theorem rests on an inductive invariant that says more than the property itself; what it adds
is told below, as that is where the reasons lie.

**Sums.** The library's induction theorems take an operator as a parameter, which the installed provers
cannot instantiate. The same principles are stated here about membership in a set, and proved from a least
counterexample: `SubsetInduction` over a finite set, `Induction` over the naturals, `Recursion` (a function
defined by recursion on the naturals exists and unfolds). With them `SumUnfold` shows that the library's sum
does not depend on the order in which its elements are chosen, and `SumAdd`, `SumChange`, `SumSame`, `SumZero`
and `SumMonotone` follow.

**ScoringLease_proofs.** `LeaseUnique`: `OnlyNewestUnrevoked` is inductive together with the types of the rows:
`acquire` revokes every unrevoked row or is refused, and heartbeats touch only `expired`. With one unrevoked row
at most, a request during which nothing runs out finds it or revokes it (`NewestLeavesNothing`).

**LiveScoring_proofs.** `Typed` carries `OnlyNewestUnrevoked` along; its delicate cases are the naturalness of
scores, which is the database's CHECK, and the range of the period. `NobodyLockedOut` follows from it: `acquire`
meets its index only by a lapse. `LedgerSafe` (corrections undo one basket once, and sessions do not interleave,
which is also `OneWriterAtATime`) follows from what `RecordEvent` appends: the newest lease is the only one that
passes `AssertValid`, and no event has a session beyond it, which is the strengthening. `ScoreIsLedger` is a sum
over the events that grows by the points that the score grows by, in total and in one period, and is left alone
by all other steps. `VersionsUsedOnce` holds for `Reschedulers = {}` only, as `version_race` shows; the
strengthening orders the versions that each table has recorded. `ResultsAnnounced`, `FinalStands` and
`LivePeriodOpen` stand on type correctness. `ImplementsLedger` is the refinement: every step of `LiveScoring`,
without reschedules, is one of `GameLedger`'s actions or leaves score, counted baskets, phase and version alone.
Its invariant says that what counts was scored at a version below the current one, so that a new basket is new.

**Outbox_proofs.** `ClaimsExclusive`, `NothingLostInTransport`, `SuccessNeedsEffect` and `Typed`. The inductive
invariant adds that a dispatcher which has added a job works on an event whose job exists or was carried
out, that a slot about to report success had the effect, and that a job which may run has attempts and
restarts left. That a claimed set has an oldest event follows from the well-foundedness of the naturals.

**Stage_proofs.** The invariant `StageInv` has four parts. `Types` types the games (two different teams in a game
that can be played), the requests, the table and the snapshots; a table is `Tabled` if some
results and manual ranks give it by `CalculateStandings`. `Overlaps` relates what a request has read to what
is there: a recalculation that nothing has overtaken knows the present results and ranks, or a message that
will catch up with them waits (`FreshInv`); the table is current, or an override is under way, such a message
waits, or something is known to be amiss (`RestInv`); while no result is withdrawn, the teams of the table are
those with results (`RowsInv`). `PlanInv` says that links join games of the stage, `JobsInv` that messages never
outnumber changes. From it follow `TableCurrentAtRest`, `ManualRanksStand`, and `StageTyped`. `RankingsRecorded`
needs none of it: a rewrite leaves table and snapshot alike, whatever version it writes under, and the update of
a manual rank changes neither record nor place.

`TableIsSound` is about the algorithm. The comparator of `calculateStandings` is a strict total order, since
the first criterion that differs decides and the id decides at last; the rank counts the teams ahead, so ranks
run from 1 to n without ties. Wins and losses, points for and against balance by induction over the set of
results: each adds the same to both sides.

`SchedulesComplete` and `BracketsSound` are about the generators, for every number of teams. `SourcePlace`
solves the rotations of the circle method: the first team stays, and what stands in place p of round r stood r
places earlier on the first circle, counted around the other m - 1 places. Two of these that face each other
have places that add up to the same number, up to one turn of the circle, so that a pair meets in the one round
in which the parity is right (`MeetOnce`); a bye drops out (`FirstLegMeets`), and the second leg swaps the homes
(`HostsOnce`). For brackets, `BracketTree` unrolls the list of slots into rounds of `Power[k - r]` slots each,
so that slot s of a round feeds slot s div 2 of the next and is its only feeder of that parity (`TreeFeeds`),
and as fewer than half of the places of the first round are byes, every first game has a team (`SeededOnce`).
The invariant `SchedulesInv` carries this through the life of the stage: calls are numbered 1 to k, each has
drawn for the teams in `entered` a complete round robin or a sound tree, or is a single game, and no later call,
result or status touches its games' teams, rounds and links.

**ScoringConsole_proofs.** `NeverCountedTwice`: while the scored game is not `rewound`, entry i of the ledger was
meant as entry i. What a page or a command knows of the game is never ahead of it, and is the whole ledger if
its version is the present one; a command that repeats what was meant once expects a version that has
passed. `ClientsTyped`, `ScreenNeverFallsBack` and `RoomUpToDate` share an invariant on the clients
(`CenterInv`). Of a game that is not `rewound` nothing remembers a version it has not had, and of any two
`Copies` of it, in rows, snapshots, messages, providers or on the screen, the one with the greater version has
played at least as much (`CopiesInv`); this is what lets the version decide in `_merge`. A snapshot that waits
to be shown is not older than what its game's screens have shown (`Answered`), the service is ahead of all
its providers and they of the snapshots they began with (`Ahead`), the screen shows nothing older than it has
(`Done`), and the newest version is with a client in the room, in its inbox, or among the broadcasts to come
(`Joined`). The attempt to prove `RoomUpToDate` found that a screen whose provider was built before (finding 4)
can, after enough visits, stay behind a game whose room it is in. This takes 21 steps and more visits than
`live_clients` allows, and TLC confirmed it with larger bounds; `InRoomUpToDate` and `CatchesUp` therefore
except a client that `strayed`.

**Accounts_proofs.** `AccountsTyped` types the account's rows and clients; it needs that the value for "no
session" is no client, which is an assumption of `Sessions`. `OneSignIn` and `EveryoneSignedOut` share an
invariant: a rotation holds a session that is active until it commits, no two rotations hold the same one, the
scope of a statement that signs everybody out has every active session that its snapshot could know, and what
outlives it was born after it or is late for it (`Outlived`). `LeftForGood` adds that there is one verification
token, that it is good only while the account is pending, and that whoever could ask for deletion has verified
the account; most steps are shown to leave all of this alone (`Framed`). `ForgottenForGood` and
`NoChangeSwallowed` are part of `RecordsInv`, which bounds rows, requests and messages by what has happened: a
message is about a change that the game has had, and its handler has read no older version than that. Unless
`rewound`, the version of a notice counts the changes. A request that saves something after the deletion must
have passed the guard before it, since the guard finds the account deactivated. `NoAppEndsItsSession` rests on
`AppsInv`: sessions of one sign-in are never with two clients (`Owned`), those of a login that is not answered
yet with nobody (`Fresh`), and an app that waits for no answer holds the only active session of its sign-in,
which nobody rotates (`Safe`).

**Organization_proofs.** One invariant for each area (registration, invitations, rosters, media), and lemmas
on the footprint of each area, what its steps leave alone in the others, so that each theorem
(`DecidedOnce`, `GrantedOnce`, `ReviewedAsSeen`, `LogosRetired`) is an argument about its own area. For media:
only pages that put a logo have its asset before it is worn, and no two have the same. `OrganizationTyped`
puts them together and adds that roles belong to members (`RolesInv`), that applications are well formed
(`ApplicationInv`), and that the numbers of a roster's players are different (`LineupInv`), which is the
database's unique index seen through every edit.

**With TLC only.** The liveness properties `EventuallySettled` and `CatchesUp`, which need ENABLED. Every
other property of a passing run is a theorem.

## 6. Not modelled

* Adapters: e-mail, S3, Redis, push providers, token cryptography; configuration, health checks, logging.
  They keep no state that decides anything. `NotificationService.deliver` is never called.
* Reads of the portal and the public site other than those whose results are acted on: they change nothing.
  (Reading them showed that a search lists published games of unpublished tournaments, and that a
  tournament's announcements do not expire.)
* Operations that insert or edit rows on which no modelled operation depends: organizations, seasons,
  divisions, stages, venues and courts, `updatePlayer`, announcements, and CSV exports. A scheduled
  announcement has no operation that publishes it.
* Roles other than administrator, tournament manager and coach; scopes of single games; platform
  administrators, who pass every check. More than one tournament, team, account or stage: handlers of
  different ones share no rows that matter, apart from the outbox.
* Groups-then-knockout advancement, which the code does not implement.
* The counter of failed logins is written from what each handler has read, and is modelled so
  (`RecordFailedLogin`); that concurrent failures are undercounted follows at once and is no property.
* Several API processes for one room of the gateway: broadcasts between processes are Redis's.
* Time itself: leases, tokens, sessions, invitations and roles expire at any moment instead.
