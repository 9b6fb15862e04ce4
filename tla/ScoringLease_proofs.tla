------------------------- MODULE ScoringLease_proofs -------------------------
(***************************************************************************)
(* Proofs about the scoring lease, for any scorekeepers and any number of  *)
(* leases.  They are stated for the steps of ScoringLease, so that the     *)
(* proofs about LiveScoring, which makes the same steps, can use them.     *)
(***************************************************************************)
EXTENDS ScoringLease, SequenceTheorems, TLAPS

\* Sessions are numbered from one, without a gap.
LEMMA LeaseRows ==
  ASSUME LeaseTypeOK
  PROVE  /\ Len(leases) \in Nat
         /\ DOMAIN leases = 1..Len(leases)
         /\ \A s \in DOMAIN leases : s \in Nat /\ leases[s] \in Lease
<1>1. leases \in Seq(Lease)
  BY DEF LeaseTypeOK
<1> QED BY <1>1, LenProperties, ElementOfSeq

\* A sequence whose elements are replaced one by one is a sequence still.
LEMMA MapLeases ==
  ASSUME LeaseTypeOK, NEW F, F \in [DOMAIN leases -> Lease]
  PROVE  F \in Seq(Lease) /\ Len(F) = Len(leases) /\ DOMAIN F = 1..Len(leases)
  BY LeaseRows

\* Whatever comes into a row's two flags, it is a row still.
LEMMA FlagsSet ==
  ASSUME LeaseTypeOK, NEW s \in DOMAIN leases, NEW b \in BOOLEAN
  PROVE  /\ [leases[s] EXCEPT !.revoked = b] \in Lease
         /\ [leases[s] EXCEPT !.revoked = b].revoked = b
         /\ [leases[s] EXCEPT !.expired = b] \in Lease
         /\ [leases[s] EXCEPT !.expired = b].revoked = leases[s].revoked
  BY LeaseRows DEF Lease

\* When the index lets a new row in, everything but that row is revoked; when it
\* refuses, some rows have run out.
LEMMA AcquireKeepsNewest ==
  ASSUME LeaseTypeOK, OnlyNewestUnrevoked, NEW u \in Scorekeepers, Acquire(u)
  PROVE  /\ LeaseTypeOK' /\ OnlyNewestUnrevoked'
         /\ Len(leases') = Len(leases) + 1 \/ Len(leases') = Len(leases)
<1>1. PICK lapsing \in SUBSET (Unrevoked \ Overdue) : \E held \in Held(lapsing) :
        leases' =
          IF Left(held) = {}
          THEN Append([s \in DOMAIN leases |->
                         [leases[s] EXCEPT !.revoked = @ \/ s \in Overdue \cup held]],
                      [user |-> u, revoked |-> FALSE, expired |-> FALSE])
          ELSE [s \in DOMAIN leases |-> [leases[s] EXCEPT !.expired = @ \/ s \in lapsing]]
  BY DEF Acquire
<1>2. PICK held \in Held(lapsing) :
        leases' =
          IF Left(held) = {}
          THEN Append([s \in DOMAIN leases |->
                         [leases[s] EXCEPT !.revoked = @ \/ s \in Overdue \cup held]],
                      [user |-> u, revoked |-> FALSE, expired |-> FALSE])
          ELSE [s \in DOMAIN leases |-> [leases[s] EXCEPT !.expired = @ \/ s \in lapsing]]
  BY <1>1
<1>3. /\ assignment' = assignment /\ heartbeats' = heartbeats
      /\ Len(leases) \in Nat /\ DOMAIN leases = 1..Len(leases)
  BY LeaseRows DEF Acquire
<1> DEFINE old == [s \in DOMAIN leases |->
                     [leases[s] EXCEPT !.revoked = @ \/ s \in Overdue \cup held]]
           new == [user |-> u, revoked |-> FALSE, expired |-> FALSE]
           aged == [s \in DOMAIN leases |-> [leases[s] EXCEPT !.expired = @ \/ s \in lapsing]]
<1>4. CASE Left(held) = {}
  <2>1. ASSUME NEW s \in DOMAIN leases
        PROVE  old[s] \in Lease /\ old[s].revoked
    <3>1. leases[s] \in Lease /\ leases[s].revoked \in BOOLEAN
      BY LeaseRows DEF Lease
    <3>2. (leases[s].revoked \/ s \in Overdue \cup held) = TRUE
      BY <1>4, <3>1, Zenon DEF Left, Unrevoked
    <3>3. old[s] = [leases[s] EXCEPT !.revoked = TRUE]
      BY <3>2, Zenon
    <3> HIDE DEF old
    <3> QED BY <3>3, FlagsSet
  <2>2. old \in Seq(Lease) /\ Len(old) = Len(leases) /\ DOMAIN old = 1..Len(leases)
    <3>1. old \in [DOMAIN leases -> Lease]
      BY <2>1
    <3> QED BY <3>1, MapLeases
  <2>3. \A s \in 1..Len(leases) : old[s].revoked
    BY <2>1, <1>3
  <2>4. new \in Lease
    BY DEF Lease
  <2>5. leases' = Append(old, new)
    BY <1>2, <1>4, Zenon
  <2> HIDE DEF old, new
  <2>6. leases' \in Seq(Lease) /\ Len(leases') = Len(leases) + 1
    BY <2>2, <2>4, <2>5, <1>3, AppendProperties
  <2>7. \A s \in 1..Len(leases) : leases'[s] = old[s]
    BY <2>2, <2>4, <2>5
  <2>8. LeaseTypeOK'
    BY <2>6, <1>3 DEF LeaseTypeOK
  <2>9. OnlyNewestUnrevoked'
    BY <2>3, <2>6, <2>7, <1>3 DEF OnlyNewestUnrevoked
  <2> QED BY <2>6, <2>8, <2>9
<1>5. CASE Left(held) # {}
  <2>1. ASSUME NEW s \in DOMAIN leases
        PROVE  aged[s] \in Lease /\ aged[s].revoked = leases[s].revoked
    <3>1. (leases[s].expired \/ s \in lapsing) \in BOOLEAN
      OBVIOUS
    <3> QED BY <3>1, FlagsSet
  <2>2. aged \in Seq(Lease) /\ Len(aged) = Len(leases) /\ DOMAIN aged = 1..Len(leases)
    <3>1. aged \in [DOMAIN leases -> Lease]
      BY <2>1
    <3> QED BY <3>1, MapLeases
  <2>3. leases' = aged
    BY <1>2, <1>5, Zenon
  <2> HIDE DEF aged
  <2>4. LeaseTypeOK'
    BY <2>2, <2>3, <1>3 DEF LeaseTypeOK
  <2>5. OnlyNewestUnrevoked'
    BY <2>1, <2>2, <2>3, <1>3 DEF OnlyNewestUnrevoked
  <2> QED BY <2>2, <2>3, <2>4, <2>5
<1> QED BY <1>4, <1>5

\* Everything else that happens to leases revokes nothing and creates nothing.
LEMMA UpkeepKeepsNewest ==
  ASSUME LeaseTypeOK, OnlyNewestUnrevoked, LeaseUpkeep
  PROVE  LeaseTypeOK' /\ OnlyNewestUnrevoked' /\ Len(leases') = Len(leases)
<1>1. ASSUME NEW u \in Scorekeepers, AssignScorekeeper(u) \/ AssignmentExpires(u)
      PROVE  LeaseTypeOK' /\ OnlyNewestUnrevoked' /\ Len(leases') = Len(leases)
  BY <1>1 DEF LeaseTypeOK, OnlyNewestUnrevoked, AssignScorekeeper, AssignmentExpires
<1>2. ASSUME NEW s \in DOMAIN leases, NEW b \in BOOLEAN,
             leases' = [leases EXCEPT ![s].expired = b],
             assignment' = assignment, heartbeats' \in SUBSET Nat
      PROVE  LeaseTypeOK' /\ OnlyNewestUnrevoked' /\ Len(leases') = Len(leases)
  <2>1. \A r \in DOMAIN leases : [leases[r] EXCEPT !.expired = b] \in Lease
    BY LeaseRows DEF Lease
  <2>2. leases' \in [DOMAIN leases -> Lease]
    BY <1>2, <2>1, LeaseRows
  <2>3. leases' \in Seq(Lease) /\ Len(leases') = Len(leases) /\ DOMAIN leases' = DOMAIN leases
    BY <2>2, MapLeases, LeaseRows
  <2>4. \A r \in DOMAIN leases : leases'[r].revoked = leases[r].revoked
    BY <1>2, LeaseRows DEF Lease
  <2>5. LeaseTypeOK'
    BY <1>2, <2>3 DEF LeaseTypeOK
  <2>6. OnlyNewestUnrevoked'
    BY <2>3, <2>4 DEF OnlyNewestUnrevoked
  <2> QED BY <2>3, <2>5, <2>6
<1>3. ASSUME NEW s \in DOMAIN leases, LeaseExpires(s)
      PROVE  LeaseTypeOK' /\ OnlyNewestUnrevoked' /\ Len(leases') = Len(leases)
  BY <1>2, <1>3 DEF LeaseTypeOK, LeaseExpires
<1>4. ASSUME NEW s \in DOMAIN leases, HeartbeatRead(s)
      PROVE  LeaseTypeOK' /\ OnlyNewestUnrevoked' /\ Len(leases') = Len(leases)
  BY <1>4, LeaseRows DEF LeaseTypeOK, OnlyNewestUnrevoked, HeartbeatRead
<1>5. ASSUME NEW s \in DOMAIN leases, HeartbeatWrite(s)
      PROVE  LeaseTypeOK' /\ OnlyNewestUnrevoked' /\ Len(leases') = Len(leases)
  BY <1>2, <1>5 DEF LeaseTypeOK, HeartbeatWrite
<1> QED BY <1>1, <1>3, <1>4, <1>5 DEF LeaseUpkeep

\* At most the newest lease of a game is not revoked, whatever the order of
\* acquisitions, lapses, expiries and late heartbeats (scoring-lease.service.ts:22-136).
THEOREM LeaseUnique == LeaseSpec => [](LeaseTypeOK /\ OnlyNewestUnrevoked)
<1>1. LeaseInit => LeaseTypeOK /\ OnlyNewestUnrevoked
  BY DEF LeaseInit, LeaseTypeOK, OnlyNewestUnrevoked
<1>2. LeaseTypeOK /\ OnlyNewestUnrevoked /\ [LeaseNext]_leaseVars
        => LeaseTypeOK' /\ OnlyNewestUnrevoked'
  <2>1. CASE UNCHANGED leaseVars
    BY <2>1 DEF leaseVars, LeaseTypeOK, OnlyNewestUnrevoked
  <2>2. CASE LeaseNext
    BY <2>2, AcquireKeepsNewest, UpkeepKeepsNewest DEF LeaseNext
  <2> QED BY <2>1, <2>2
<1> QED BY <1>1, <1>2, PTL DEF LeaseSpec

\* If at most one row is unrevoked, a request during which nothing runs out leaves none.
LEMMA NewestLeavesNothing ==
  ASSUME LeaseTypeOK, OnlyNewestUnrevoked
  PROVE  CollisionsNeedALapse
<1>1. SUFFICES ASSUME NEW held \in Held({}), NEW s \in Left(held)
               PROVE  FALSE
  BY DEF CollisionsNeedALapse
<1>2. s \in DOMAIN leases /\ ~leases[s].revoked /\ ~leases[s].expired /\ s \notin held
  BY DEF Left, Unrevoked, Overdue
<1>3. PICK r : held = {r} /\ r \in DOMAIN leases /\ ~leases[r].revoked
  BY <1>2 DEF Held, Unrevoked
<1> QED BY <1>2, <1>3 DEF OnlyNewestUnrevoked
=============================================================================
