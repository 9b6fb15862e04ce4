---------------------------- MODULE ScoringLease ----------------------------
(***************************************************************************)
(* The scoring lease of one game: scoring-lease.service.ts, and the        *)
(* scorekeeper assignment it depends on (games.service.ts).                *)
(*                                                                         *)
(* A lease row is named by its scoring session.  Sessions are UUIDs, only  *)
(* compared for equality, so the n-th lease created is session n.  Its     *)
(* expiry time is reduced to whether it has passed: LeaseExpires may       *)
(* happen at any moment, so every relative timing of the 45 s lease, its   *)
(* heartbeats and the commands sent under it is explored.                  *)
(*                                                                         *)
(* acquire runs SERIALIZABLE under an advisory lock and is one action, in  *)
(* which the clock is read twice; a transaction that PostgreSQL aborts     *)
(* changes nothing.  heartbeat is not transactional: it reads and checks   *)
(* the row, then updates it by id, and anything may happen in between.     *)
(***************************************************************************)
EXTENDS Naturals, Sequences

CONSTANTS
  Scorekeepers,   \* users an organizer may assign to the game
  MaxLeases       \* bound of the model: leases ever created for the game

ASSUME ScoringLeaseAssumption == MaxLeases \in Nat

VARIABLES
  leases,         \* ScoringLease rows, in order of creation
  assignment,     \* the SCOREKEEPER GameAssignment of each user
  heartbeats      \* sessions whose heartbeat was checked and is not yet written

leaseVars == <<leases, assignment, heartbeats>>

Lease == [user : Scorekeepers, revoked : BOOLEAN, expired : BOOLEAN]

LeaseTypeOK ==
  /\ leases \in Seq(Lease)
  /\ assignment \in [Scorekeepers -> {"none", "active", "expired"}]
  /\ heartbeats \in SUBSET Nat

LeaseInit ==
  /\ leases = <<>>
  /\ assignment = [u \in Scorekeepers |-> "none"]
  /\ heartbeats = {}
-----------------------------------------------------------------------------
\* The row is neither revoked nor past its expiry.
Current(s) == ~leases[s].revoked /\ ~leases[s].expired

\* Variant: revocation is not looked at.
AssertUnexpired(s, u) ==
  /\ s \in DOMAIN leases
  /\ leases[s].user = u
  /\ ~leases[s].expired

\* assertValid: the command's session is a current lease of this user.  The
\* token's hash identifies the row like the session does, and is left out.
AssertValid(s, u) ==
  /\ s \in DOMAIN leases
  /\ leases[s].user = u
  /\ Current(s)

\* assignScorekeeper upserts the row: active again, with a new expiry or none.
AssignScorekeeper(u) ==
  /\ assignment' = [assignment EXCEPT ![u] = "active"]
  /\ UNCHANGED <<leases, heartbeats>>

AssignmentExpires(u) ==
  /\ assignment[u] = "active"
  /\ assignment' = [assignment EXCEPT ![u] = "expired"]
  /\ UNCHANGED <<leases, heartbeats>>

Unrevoked == {s \in DOMAIN leases : ~leases[s].revoked}

\* Variant: acquire does not clean up after leases that have run out.
NothingOverdue == {}

\* updateMany: the rows that have run out when acquire first looks at the clock.
Overdue == {s \in Unrevoked : leases[s].expired}

\* findFirst looks at the clock again, and returns one of the rows that have not
\* run out by then, if there is one; those in lapsing have run out in between.
Held(lapsing) ==
  LET found == {s \in Unrevoked : ~leases[s].expired} \ lapsing
  IN  IF found = {} THEN {{}} ELSE {{s} : s \in found}

\* Rows that neither statement revokes.
Left(held) == Unrevoked \ (Overdue \cup held)

\* A lease held by somebody else refuses the request, the caller's own one is
\* replaced.  The partial unique index ScoringLease_one_active_per_game refuses
\* the new row while an unrevoked one is left: then only time has passed.
Acquire(u) ==
  /\ Len(leases) < MaxLeases
  /\ assignment[u] = "active"
  /\ \E lapsing \in SUBSET (Unrevoked \ Overdue) : \E held \in Held(lapsing) :
       /\ \A s \in held : leases[s].user = u
       /\ leases' =
            IF Left(held) = {}
            THEN Append([s \in DOMAIN leases |->
                           [leases[s] EXCEPT !.revoked = @ \/ s \in Overdue \cup held]],
                        [user |-> u, revoked |-> FALSE, expired |-> FALSE])
            ELSE [s \in DOMAIN leases |-> [leases[s] EXCEPT !.expired = @ \/ s \in lapsing]]
  /\ UNCHANGED <<assignment, heartbeats>>

\* Time passes.  Whether a revoked row is also past its expiry changes nothing.
LeaseExpires(s) ==
  /\ s \in DOMAIN leases
  /\ Current(s)
  /\ leases' = [leases EXCEPT ![s].expired = TRUE]
  /\ UNCHANGED <<assignment, heartbeats>>

\* heartbeat: findUnique and the checks on the row ...
HeartbeatRead(s) ==
  /\ s \in DOMAIN leases \ heartbeats
  /\ Current(s)
  /\ heartbeats' = heartbeats \cup {s}
  /\ UNCHANGED <<leases, assignment>>

\* ... then the update by id, whatever has become of the row.
HeartbeatWrite(s) ==
  /\ s \in heartbeats
  /\ leases' = [leases EXCEPT ![s].expired = FALSE]
  /\ heartbeats' = heartbeats \ {s}
  /\ UNCHANGED assignment
-----------------------------------------------------------------------------
\* Everything that happens to leases besides acquisition, which the game guards.
LeaseUpkeep ==
  \/ \E u \in Scorekeepers : AssignScorekeeper(u) \/ AssignmentExpires(u)
  \/ \E s \in DOMAIN leases : LeaseExpires(s) \/ HeartbeatRead(s) \/ HeartbeatWrite(s)

LeaseNext ==
  \/ \E u \in Scorekeepers : Acquire(u)
  \/ LeaseUpkeep

LeaseSpec == LeaseInit /\ [][LeaseNext]_leaseVars
-----------------------------------------------------------------------------
\* acquire runs into the unique index only if a lease runs out between its two
\* looks at the clock.  Whatever rows expiries, takeovers and heartbeats that
\* arrive late have left behind, nobody who may score is locked out: a request
\* during which nothing runs out leaves no row that could refuse its own.
CollisionsNeedALapse == \A held \in Held({}) : Left(held) = {}

\* At most the newest lease is not revoked.
OnlyNewestUnrevoked ==
  \A s \in DOMAIN leases : ~leases[s].revoked => s = Len(leases)
=============================================================================
