---------------------------- MODULE Accounts_proofs ----------------------------
(***************************************************************************)
(* Proofs about the sessions of an account, for any number of apps,        *)
(* browsers, requests and failures.                                        *)
(***************************************************************************)
EXTENDS Accounts, SequenceTheorems, TLAPS

USE SessionsAssumption

Session == [family : Nat, revoked : BOOLEAN, lapsed : BOOLEAN, since : Nat, born : Nat, late : Nat]

TypeInv ==
  /\ sessions \in Seq(Session) /\ signOuts \in Nat
  /\ clients \in [Clients -> [refresh : Nat, access : Nat]]
  /\ requests = [r \in Requests |-> requests[r]]

\* A family is named by its first session, and nothing is inserted ahead of time.
FamiliesInv ==
  \A s \in DOMAIN sessions : sessions[s].family <= s /\ sessions[s].born <= signOuts

\* The requests that a client waits for, and those that sign out, as records.
Shape(x) ==
  /\ x.step \in {"refresh", "rotating"} =>
       x \in [step : {"refresh", "rotating"}, client : Clients \cup {None}, session : Nat,
              since : Nat]
  /\ x.step = "verified" =>
       x \in [step : {"verified"}, client : Clients \cup {None}, since : Nat]
  /\ x.step = "answer" =>
       x \in [step : {"answer"}, client : Clients, session : Nat, login : BOOLEAN]
  /\ x.step = "revoking" /\ x.effect = "reuse" =>
       x \in [step : {"revoking"}, effect : {"reuse"}, client : Clients \cup {None},
              scope : SUBSET Nat]
  /\ x.step = "reset" => x.effect = "reset"

\* A rotation has read a session that was there, and holds it active until it commits; a
\* statement that signs everybody out has in its scope what is active of the sessions it
\* could know.
RequestInv(x) ==
  /\ Shape(x)
  /\ x.step \in {"refresh", "rotating"} =>
       x.session \in DOMAIN sessions /\ sessions[x.session].born <= x.since
  /\ x.step = "rotating" => x.session \in Active
  /\ x.step = "revoking" /\ x.effect # "reuse" =>
       /\ x.known \in Nat /\ x.known <= Len(sessions)
       /\ \A s \in Active : s <= x.known => s \in x.scope

\* The lock of a session admits one rotation.
RotationsDistinct ==
  \A q, r \in Requests :
    requests[q].step = "rotating" /\ requests[r].step = "rotating"
    /\ requests[q].session = requests[r].session => q = r

\* What outlives a statement that signs everybody out was inserted after its snapshot.
Outlived == \A s \in Active : sessions[s].born = signOuts \/ sessions[s].late = signOuts

\* What makes OneActivePerFamily and SignOutReachesAll inductive.
IInv ==
  /\ TypeInv /\ FamiliesInv
  /\ OneActivePerFamily /\ SignOutReachesAll /\ Outlived
  /\ \A r \in Requests : RequestInv(requests[r])
  /\ RotationsDistinct

LEMMA Rows ==
  ASSUME TypeInv
  PROVE  /\ Len(sessions) \in Nat /\ DOMAIN sessions = 1..Len(sessions)
         /\ \A s \in DOMAIN sessions : s \in Nat /\ sessions[s] \in Session
         /\ Active \subseteq Nat
<1>1. sessions \in Seq(Session)
  BY DEF TypeInv
<1> QED BY <1>1, LenProperties, ElementOfSeq DEF Active
-----------------------------------------------------------------------------
\* Steps that insert no session and sign nobody out: sessions may lapse or be revoked,
\* but none that a rotation holds.
RowsStay ==
  /\ Len(sessions') = Len(sessions) /\ signOuts <= signOuts'
  /\ \A s \in DOMAIN sessions :
       /\ sessions'[s].family = sessions[s].family /\ sessions'[s].born = sessions[s].born
       /\ sessions[s].revoked => sessions'[s].revoked
  /\ \A q \in Requests : RequestInv(requests'[q])
  /\ \A q \in Requests :
       requests'[q].step = "rotating" => ~sessions'[requests'[q].session].revoked

HeldStay ==
  /\ RowsStay /\ signOuts' = signOuts
  /\ \A s \in DOMAIN sessions :
       sessions'[s].since = sessions[s].since /\ sessions'[s].late = sessions[s].late

LEMMA ActiveShrinks ==
  ASSUME IInv, TypeInv', RowsStay
  PROVE  /\ Len(sessions) \in Nat /\ DOMAIN sessions = 1..Len(sessions)
         /\ DOMAIN sessions' = DOMAIN sessions /\ Active' \subseteq Active
<1>1. sessions' \in Seq(Session)
  BY DEF TypeInv
<1>2. /\ Len(sessions) \in Nat /\ DOMAIN sessions = 1..Len(sessions)
      /\ DOMAIN sessions' = DOMAIN sessions
  BY <1>1, Rows, LenProperties DEF IInv, RowsStay
<1> QED BY <1>2 DEF Active, RowsStay

LEMMA RowsStand ==
  IInv /\ TypeInv' /\ RotationsDistinct' /\ SignOutReachesAll' /\ Outlived' /\ RowsStay => IInv'
<1> SUFFICES ASSUME IInv, TypeInv', RotationsDistinct', SignOutReachesAll', Outlived', RowsStay
             PROVE  IInv'
  OBVIOUS
<1> USE DEF RowsStay
<1>1. /\ Len(sessions) \in Nat /\ DOMAIN sessions = 1..Len(sessions)
      /\ DOMAIN sessions' = DOMAIN sessions
  BY ActiveShrinks
<1>2. Active' \subseteq Active
  BY ActiveShrinks
<1>3. FamiliesInv'
  <2> SUFFICES ASSUME NEW s \in DOMAIN sessions'
               PROVE  sessions'[s].family <= s /\ sessions'[s].born <= signOuts'
    BY DEF FamiliesInv
  <2>1. s \in DOMAIN sessions
    BY <1>1
  <2>2. /\ sessions[s].family <= s /\ sessions[s].born <= signOuts
        /\ sessions[s].born \in Nat /\ signOuts \in Nat /\ signOuts' \in Nat
    BY <2>1, Rows DEF IInv, FamiliesInv, TypeInv, Session
  <2>3. sessions'[s].family = sessions[s].family /\ sessions'[s].born = sessions[s].born
    BY <2>1
  <2> QED BY <2>2, <2>3
<1>4. OneActivePerFamily'
  <2> SUFFICES ASSUME NEW s \in Active', NEW u \in Active', sessions'[s].family = sessions'[u].family
               PROVE  s = u
    BY DEF OneActivePerFamily
  <2>1. s \in Active /\ u \in Active /\ s \in DOMAIN sessions /\ u \in DOMAIN sessions
    BY <1>2 DEF Active
  <2> QED BY <2>1 DEF IInv, OneActivePerFamily
<1>5. ASSUME NEW q \in Requests
      PROVE  RequestInv(requests[q])'
  <2> DEFINE x == requests'[q]
  <2>1. RequestInv(x) /\ (x.step = "rotating" => ~sessions'[x.session].revoked)
    OBVIOUS
  <2> HIDE DEF x
  <2>2. x.step = "rotating" => x.session \in Active'
    BY <1>1, <2>1 DEF RequestInv, Active
  <2>3. x.step = "revoking" /\ x.effect # "reuse" =>
          /\ x.known \in Nat /\ x.known <= Len(sessions')
          /\ \A s \in Active' : s <= x.known => s \in x.scope
    BY <1>2, <2>1 DEF RequestInv
  <2>4. Shape(x)
    BY <2>1 DEF RequestInv
  <2>5. x.step \in {"refresh", "rotating"} =>
          x.session \in DOMAIN sessions' /\ sessions'[x.session].born <= x.since
    BY <1>1, <2>1 DEF RequestInv
  <2> QED BY <2>2, <2>3, <2>4, <2>5 DEF x, RequestInv, Shape
<1> QED BY <1>3, <1>4, <1>5 DEF IInv

LEMMA SessionsStand == IInv /\ TypeInv' /\ RotationsDistinct' /\ HeldStay => IInv'
<1> SUFFICES ASSUME IInv, TypeInv', RotationsDistinct', HeldStay
             PROVE  IInv'
  OBVIOUS
<1>1. RowsStay
  BY DEF HeldStay
<1>2. /\ DOMAIN sessions' = DOMAIN sessions /\ Active' \subseteq Active
      /\ Active \subseteq DOMAIN sessions
  BY <1>1, ActiveShrinks DEF Active
<1>3. Outlived'
  BY <1>1, <1>2 DEF IInv, Outlived, HeldStay, RowsStay
<1>4. SignOutReachesAll'
  BY <1>1, <1>2 DEF IInv, SignOutReachesAll, HeldStay, RowsStay
<1> QED BY <1>1, <1>3, <1>4, RowsStand

\* One request changes, and does not begin a rotation.
LEMMA OneRequest ==
  ASSUME IInv, NEW r \in Requests, NEW x, requests' = [requests EXCEPT ![r] = x],
         RequestInv(x), x.step # "rotating"
  PROVE  /\ requests' = [q \in Requests |-> requests'[q]]
         /\ requests'[r] = x
         /\ \A q \in Requests : q # r => requests'[q] = requests[q]
         /\ \A q \in Requests : RequestInv(requests'[q])
         /\ \A q \in Requests : requests'[q].step = "rotating" =>
              q # r /\ requests'[q] = requests[q] /\ requests'[q].session \in Active
         /\ RotationsDistinct'
<1>1. requests = [q \in Requests |-> requests[q]]
  BY DEF IInv, TypeInv
<1>2. /\ requests' = [q \in Requests |-> requests'[q]]
      /\ requests'[r] = x /\ \A q \in Requests : q # r => requests'[q] = requests[q]
  BY <1>1
<1>3. \A q \in Requests : RequestInv(requests'[q])
  BY <1>2 DEF IInv
<1>4. \A q \in Requests : requests'[q].step = "rotating" =>
        q # r /\ requests'[q] = requests[q] /\ requests'[q].session \in Active
  BY <1>2, <1>3 DEF RequestInv
<1>5. RotationsDistinct'
  BY <1>4 DEF IInv, RotationsDistinct
<1> QED BY <1>2, <1>3, <1>4, <1>5

\* Steps that leave the sessions alone and go on with one request.
LEMMA RequestStep ==
  ASSUME IInv, UNCHANGED <<sessions, signOuts>>,
         clients' \in [Clients -> [refresh : Nat, access : Nat]],
         NEW r \in Requests, NEW x, requests' = [requests EXCEPT ![r] = x],
         RequestInv(x), x.step # "rotating"
  PROVE  IInv'
<1>1. TypeInv'
  BY OneRequest DEF IInv, TypeInv
<1>2. \A q \in Requests :
        requests'[q].step = "rotating" => ~sessions'[requests'[q].session].revoked
  BY OneRequest DEF Active
<1>3. RotationsDistinct' /\ \A q \in Requests : RequestInv(requests'[q])
  BY OneRequest
<1>4. signOuts <= signOuts'
  BY DEF IInv, TypeInv
<1>5. HeldStay
  BY <1>2, <1>3, <1>4 DEF HeldStay, RowsStay
<1> QED BY <1>1, <1>3, <1>5, SessionsStand

\* Requests of the other kinds are of no concern to the sessions.
Harmless(x) ==
  x.step \notin {"refresh", "rotating", "verified", "answer", "revoking", "reset"}

LEMMA HarmlessRequest ==
  ASSUME NEW x, Harmless(x)
  PROVE  RequestInv(x) /\ x.step # "rotating"
  BY DEF Harmless, RequestInv, Shape

LEMMA IdleHarmless == Harmless(Idle)
  BY DEF Harmless, Idle

\* What changes a game leaves the account alone.
GameMoves == ChangeGame \/ RescheduleRead \/ \E q \in rescheduling : RescheduleCommit(q)

LEMMA GameMovesApart ==
  GameMoves => UNCHANGED <<accountVars, clients, requests, stopped, bereft, personal, deliveries,
                           told, overtaken>>
  BY DEF GameMoves, ChangeGame, RescheduleRead, RescheduleCommit, Change

\* Steps that leave requests, clients and sessions alone.
LEMMA SameSessions ==
  ASSUME IInv, UNCHANGED <<sessions, signOuts, clients, requests>>
  PROVE  IInv'
<1>1. TypeInv' /\ RotationsDistinct'
  BY DEF IInv, TypeInv, RotationsDistinct
<1>2. \A q \in Requests : RequestInv(requests'[q])
  BY DEF IInv
<1>3. \A q \in Requests :
        requests'[q].step = "rotating" => ~sessions'[requests'[q].session].revoked
  BY <1>2 DEF RequestInv, Active
<1>4. signOuts \in Nat
  BY DEF IInv, TypeInv
<1> QED BY <1>1, <1>2, <1>3, <1>4, SessionsStand DEF HeldStay, RowsStay
-----------------------------------------------------------------------------
\* A session is inserted: a new family, or the next of a family that has none active.
Insertable(r, old, new) ==
  /\ old \in Seq(Session) /\ new \in Session /\ sessions' = Append(old, new)
  /\ Len(old) = Len(sessions)
  /\ \A s \in DOMAIN sessions :
       /\ old[s].family = sessions[s].family /\ old[s].born = sessions[s].born
       /\ old[s].since = sessions[s].since /\ old[s].late = sessions[s].late
       /\ sessions[s].revoked => old[s].revoked
       /\ ~old[s].revoked => sessions[s].family # new.family
  /\ \A q \in Requests \ {r} :
       requests[q].step = "rotating" => ~old[requests[q].session].revoked
  /\ new.born = signOuts /\ new.family <= Len(sessions) + 1
  /\ \/ ~(new.since < signOuts) \/ new.family = Len(sessions) + 1
     \/ \E u \in DOMAIN sessions : sessions[u].family = new.family /\ sessions[u].late = signOuts

LEMMA Inserted ==
  ASSUME IInv, NEW r \in Requests, NEW x, requests' = [requests EXCEPT ![r] = x],
         RequestInv(x), x.step \in {"idle", "answer"},
         UNCHANGED <<signOuts, clients>>, NEW old, NEW new, Insertable(r, old, new)
  PROVE  IInv'
<1> USE DEF Insertable
<1> DEFINE n == Len(sessions)
<1>1. /\ n \in Nat /\ DOMAIN sessions = 1..n /\ sessions' \in Seq(Session)
      /\ DOMAIN sessions' = 1..(n + 1) /\ Len(sessions') = n + 1
      /\ sessions'[n + 1] = new /\ \A s \in 1..n : sessions'[s] = old[s]
  BY Rows, AppendProperties, LenProperties DEF IInv
<1> HIDE DEF n
<1>2. /\ requests' = [q \in Requests |-> requests'[q]]
      /\ \A q \in Requests : RequestInv(requests'[q])
      /\ \A q \in Requests : requests'[q].step = "rotating" =>
           q # r /\ requests'[q] = requests[q] /\ requests'[q].session \in Active
      /\ RotationsDistinct'
  BY OneRequest
<1>3. Active' \subseteq Active \cup {n + 1}
  BY <1>1 DEF Active
<1>4. TypeInv'
  BY <1>1, <1>2 DEF IInv, TypeInv
<1>5. FamiliesInv'
  <2> SUFFICES ASSUME NEW s \in DOMAIN sessions'
               PROVE  sessions'[s].family <= s /\ sessions'[s].born <= signOuts'
    BY DEF FamiliesInv
  <2>1. CASE s = n + 1
    BY <1>1, <2>1 DEF n, IInv, TypeInv
  <2>2. CASE s \in 1..n
    BY <1>1, <2>2 DEF IInv, FamiliesInv
  <2> QED BY <1>1, <2>1, <2>2
<1>6. OneActivePerFamily'
  <2> SUFFICES ASSUME NEW s \in Active', NEW u \in Active', sessions'[s].family = sessions'[u].family
               PROVE  s = u
    BY DEF OneActivePerFamily
  <2>1. s \in 1..n \/ s = n + 1
    BY <1>1 DEF Active
  <2>2. u \in 1..n \/ u = n + 1
    BY <1>1 DEF Active
  <2>3. CASE s \in 1..n /\ u \in 1..n
    <3>1. s \in Active /\ u \in Active
      BY <1>1, <1>3, <2>3
    <3> QED BY <1>1, <2>3, <3>1 DEF IInv, OneActivePerFamily
  <2>4. CASE s \in 1..n /\ u = n + 1
    BY <1>1, <2>4 DEF Active
  <2>5. CASE s = n + 1 /\ u \in 1..n
    BY <1>1, <2>5 DEF Active
  <2> QED BY <2>1, <2>2, <2>3, <2>4, <2>5
<1>7. Outlived'
  <2> SUFFICES ASSUME NEW s \in Active'
               PROVE  sessions'[s].born = signOuts' \/ sessions'[s].late = signOuts'
    BY DEF Outlived
  <2>1. CASE s = n + 1
    BY <1>1, <2>1
  <2>2. CASE s \in 1..n
    BY <1>1, <1>3, <2>2 DEF IInv, Outlived
  <2> QED BY <1>1, <2>1, <2>2 DEF Active
<1>9. SignOutReachesAll'
  <2> DEFINE Overtaken(rows, s) ==
               \E u \in DOMAIN rows : rows[u].family = rows[s].family /\ rows[u].late = signOuts
  <2> SUFFICES ASSUME NEW s \in Active', sessions'[s].since < signOuts
               PROVE  \/ sessions'[s].late = signOuts
                      \/ /\ sessions'[s].born = signOuts
                         /\ sessions'[s].family = s \/ Overtaken(sessions', s)
    BY DEF SignOutReachesAll
  <2>1. CASE s = n + 1
    <3>1. CASE new.family = n + 1
      BY <1>1, <2>1, <3>1
    <3>2. ASSUME NEW u \in DOMAIN sessions,
                 sessions[u].family = new.family, sessions[u].late = signOuts
          PROVE  Overtaken(sessions', s)
      <4>1. u \in DOMAIN sessions' /\ sessions'[u].family = sessions'[s].family
            /\ sessions'[u].late = signOuts
        BY <1>1, <2>1, <3>2
      <4> QED BY <4>1
    <3> QED BY <1>1, <2>1, <3>1, <3>2 DEF n
  <2>2. CASE s \in 1..n
    <3>1. s \in Active /\ sessions[s].since < signOuts
      BY <1>1, <1>3, <2>2
    <3>2. \/ sessions[s].late = signOuts
          \/ sessions[s].born = signOuts /\ (sessions[s].family = s \/ Overtaken(sessions, s))
      BY <3>1 DEF IInv, SignOutReachesAll
    <3>3. Overtaken(sessions, s) => Overtaken(sessions', s)
      <4>1. \A u \in 1..n :
              sessions'[u].family = sessions[u].family /\ sessions'[u].late = sessions[u].late
        BY <1>1
      <4>2. DOMAIN sessions = 1..n /\ 1..n \subseteq DOMAIN sessions'
        BY <1>1
      <4> HIDE DEF Insertable
      <4> QED BY <4>1, <4>2, <2>2 DEF Overtaken
    <3> HIDE DEF Overtaken
    <3> QED BY <1>1, <2>2, <3>2, <3>3
  <2> QED BY <1>1, <2>1, <2>2 DEF Active
<1>8. ASSUME NEW q \in Requests
      PROVE  RequestInv(requests[q])'
  <2> DEFINE y == requests'[q]
  <2>1. RequestInv(y) /\ (y.step = "rotating" => y.session \in Active /\ ~old[y.session].revoked)
    BY <1>2
  <2> HIDE DEF y
  <2>2. y.step = "rotating" => y.session \in Active'
    <3>1. Active \subseteq 1..n
      BY <1>1 DEF Active
    <3> QED BY <1>1, <2>1, <3>1 DEF Active
  <2>3. y.step = "revoking" /\ y.effect # "reuse" =>
          /\ y.known \in Nat /\ y.known <= Len(sessions')
          /\ \A s \in Active' : s <= y.known => s \in y.scope
    BY <1>1, <1>3, <2>1 DEF RequestInv, n
  <2>4. Shape(y)
    BY <2>1 DEF RequestInv
  <2>5. y.step \in {"refresh", "rotating"} =>
          y.session \in DOMAIN sessions' /\ sessions'[y.session].born <= y.since
    BY <1>1, <2>1 DEF RequestInv
  <2> QED BY <2>2, <2>3, <2>4, <2>5 DEF y, RequestInv, Shape
<1> QED BY <1>2, <1>4, <1>5, <1>6, <1>7, <1>8, <1>9 DEF IInv

\* The answer that Answer puts on its way is one.
LEMMA AnswerRequest ==
  ASSUME IInv, NEW r \in Requests, requests[r].step \in {"verified", "rotating"},
         NEW s \in Nat, NEW login \in BOOLEAN, Answer(r, s, login)
  PROVE  \E x : /\ requests' = [requests EXCEPT ![r] = x]
                /\ RequestInv(x) /\ x.step \in {"idle", "answer"}
<1>1. requests[r].client \in Clients \cup {None}
  BY DEF IInv, RequestInv, Shape
<1>2. CASE requests[r].client = None
  <2>1. requests' = [requests EXCEPT ![r] = Idle]
    BY <1>2 DEF Answer, Continue
  <2>2. RequestInv(Idle) /\ Idle.step = "idle"
    BY HarmlessRequest, IdleHarmless DEF Idle
  <2> QED BY <2>1, <2>2
<1>3. CASE requests[r].client # None
  <2> DEFINE x == [step |-> "answer", client |-> requests[r].client, session |-> s,
                   login |-> login]
  <2>1. requests' = [requests EXCEPT ![r] = x]
    BY <1>3 DEF Answer, Continue
  <2>2. x.step = "answer" /\ x \in [step : {"answer"}, client : Clients, session : Nat,
                                    login : BOOLEAN]
    BY <1>1, <1>3
  <2> HIDE DEF x
  <2>3. RequestInv(x)
    BY <2>2 DEF RequestInv, Shape
  <2> QED BY <2>1, <2>2, <2>3
<1> QED BY <1>2, <1>3

LEMMA CreateSessionKeeps ==
  ASSUME IInv, NEW r \in Requests, CreateSession(r)
  PROVE  IInv'
<1> DEFINE n == Len(sessions)
           new == [family |-> n + 1, revoked |-> FALSE, lapsed |-> FALSE,
                   since |-> requests[r].since, born |-> signOuts, late |-> 0]
<1>1. sessions' = Append(sessions, new) /\ UNCHANGED <<signOuts, clients>>
  BY DEF CreateSession, NewSession
<1>2. n \in Nat /\ sessions \in Seq(Session) /\ DOMAIN sessions = 1..n /\ signOuts \in Nat
  BY Rows DEF IInv, TypeInv
<1>3. requests[r].step = "verified" /\ Answer(r, n + 1, TRUE)
  BY DEF CreateSession
<1>4. requests[r].since \in Nat
  BY <1>3 DEF IInv, RequestInv, Shape
<1>5. new \in Session /\ new.family = n + 1 /\ new.born = signOuts
  BY <1>2, <1>4 DEF Session
<1>6. PICK x : /\ requests' = [requests EXCEPT ![r] = x]
               /\ RequestInv(x) /\ x.step \in {"idle", "answer"}
  <2>1. n + 1 \in Nat /\ TRUE \in BOOLEAN /\ requests[r].step \in {"verified", "rotating"}
    BY <1>2, <1>3
  <2> HIDE DEF n
  <2> QED BY <1>3, <2>1, AnswerRequest
<1>7. \A s \in DOMAIN sessions : sessions[s].family # new.family
  BY <1>2, <1>5, Rows DEF IInv, FamiliesInv, Session
<1>8. \A q \in Requests : requests[q].step = "rotating" => ~sessions[requests[q].session].revoked
  BY DEF IInv, RequestInv, Active
<1> HIDE DEF new
<1>9. Insertable(r, sessions, new)
  BY <1>1, <1>2, <1>5, <1>7, <1>8 DEF Insertable
<1> QED BY <1>1, <1>6, <1>9, Inserted

LEMMA RotateCommitKeeps ==
  ASSUME IInv, NEW r \in Requests, RotateCommit(r)
  PROVE  IInv'
<1> DEFINE n == Len(sessions)
           s == requests[r].session
           old == [sessions EXCEPT ![s].revoked = TRUE]
           new == [sessions[s] EXCEPT !.since = requests[r].since, !.born = signOuts,
                                      !.late = 0, !.lapsed = FALSE, !.revoked = FALSE]
<1>1. /\ requests[r].step = "rotating" /\ sessions' = Append(old, new)
      /\ Answer(r, n + 1, FALSE) /\ UNCHANGED <<signOuts, clients>>
  BY DEF RotateCommit
<1>2. n \in Nat /\ sessions \in Seq(Session) /\ DOMAIN sessions = 1..n /\ signOuts \in Nat
  BY Rows DEF IInv, TypeInv
<1>3. s \in Active /\ s \in 1..n /\ sessions[s] \in Session /\ requests[r].since \in Nat
  BY <1>1, <1>2, Rows DEF IInv, RequestInv, Shape, Active
<1>4. /\ new \in Session /\ new.family = sessions[s].family /\ new.born = signOuts
      /\ new.since = requests[r].since
  BY <1>2, <1>3 DEF Session
<1>5. /\ old \in Seq(Session) /\ Len(old) = n /\ old[s].revoked
      /\ \A u \in 1..n : u # s => old[u] = sessions[u]
      /\ old[s].family = sessions[s].family /\ old[s].born = sessions[s].born
      /\ old[s].since = sessions[s].since /\ old[s].late = sessions[s].late
  <2>1. [sessions[s] EXCEPT !.revoked = TRUE] \in Session
    BY <1>3 DEF Session
  <2>2. old \in [1..n -> Session] /\ \A u \in 1..n : old[u] = IF u = s
            THEN [sessions[s] EXCEPT !.revoked = TRUE] ELSE sessions[u]
    BY <1>2, <1>3, <2>1, Rows DEF IInv
  <2>3. old \in Seq(Session) /\ Len(old) = n
    BY <1>2, <2>2
  <2> QED BY <1>3, <2>2, <2>3 DEF Session
<1>6. PICK x : /\ requests' = [requests EXCEPT ![r] = x]
               /\ RequestInv(x) /\ x.step \in {"idle", "answer"}
  <2>1. n + 1 \in Nat /\ FALSE \in BOOLEAN /\ requests[r].step \in {"verified", "rotating"}
    BY <1>1, <1>2
  <2> HIDE DEF n
  <2> QED BY <1>1, <2>1, AnswerRequest
<1> HIDE DEF old, new
<1>7. \A u \in 1..n : ~old[u].revoked => sessions[u].family # new.family
  <2> SUFFICES ASSUME NEW u \in 1..n, ~old[u].revoked
               PROVE  sessions[u].family # new.family
    OBVIOUS
  <2>1. u # s /\ u \in Active
    BY <1>2, <1>5 DEF Active
  <2> QED BY <1>3, <1>4, <2>1 DEF IInv, OneActivePerFamily
<1>8. \A q \in Requests \ {r} : requests[q].step = "rotating" =>
        ~old[requests[q].session].revoked
  <2> SUFFICES ASSUME NEW q \in Requests \ {r}, requests[q].step = "rotating"
               PROVE  ~old[requests[q].session].revoked
    OBVIOUS
  <2>1. requests[q].session # s /\ requests[q].session \in Active
    BY <1>1 DEF IInv, RotationsDistinct, RequestInv
  <2> QED BY <1>2, <1>5, <2>1 DEF Active
<1>9. new.family <= n + 1
  <2>1. sessions[s].family <= s /\ sessions[s].family \in Nat
    BY <1>2, <1>3 DEF IInv, FamiliesInv, Session
  <2> QED BY <1>2, <1>3, <1>4, <2>1
<1>10. \A u \in DOMAIN sessions :
         /\ old[u].family = sessions[u].family /\ old[u].born = sessions[u].born
         /\ old[u].since = sessions[u].since /\ old[u].late = sessions[u].late
         /\ sessions[u].revoked => old[u].revoked
  BY <1>2, <1>5
<1>11. \A u \in DOMAIN sessions : ~old[u].revoked => sessions[u].family # new.family
  BY <1>2, <1>7
<1>13. new.since < signOuts => sessions[s].late = signOuts
  <2>1. sessions[s].born <= new.since
    BY <1>1, <1>4 DEF IInv, RequestInv
  <2>2. sessions[s].born = signOuts \/ sessions[s].late = signOuts
    BY <1>3 DEF IInv, Outlived
  <2>3. sessions[s].born \in Nat /\ new.since \in Nat /\ signOuts \in Nat
    BY <1>2, <1>3, <1>4 DEF Session
  <2> HIDE DEF s
  <2> QED BY <2>1, <2>2, <2>3
<1> HIDE DEF s
<1>14. \/ ~(new.since < signOuts)
       \/ \E u \in DOMAIN sessions : sessions[u].family = new.family /\ sessions[u].late = signOuts
  BY <1>2, <1>3, <1>4, <1>13
<1>12. Insertable(r, old, new)
  BY <1>1, <1>4, <1>5, <1>8, <1>9, <1>10, <1>11, <1>14 DEF Insertable
<1> QED BY <1>1, <1>6, <1>12, Inserted
-----------------------------------------------------------------------------
\* The requests that begin, go on or end without the sessions.
Quiet(r) ==
  \/ VerifyCommit(r) \/ RecordFailedLogin(r) \/ RequestDataAction(r) \/ Fail(r)
  \/ SavePersonal(r) \/ NotifyCommit(r, FALSE) \/ NotifyCommit(r, TRUE)
  \/ \E t \in DOMAIN tokens : VerifyRead(r, t)
  \/ \E c \in Clients : \E effect : Authorize(r, c, effect)
  \/ \E message \in messages : NotifyRead(r, message)

LEMMA QuietKeeps ==
  ASSUME IInv, NEW r \in Requests, Quiet(r)
  PROVE  IInv'
<1>1. clients \in [Clients -> [refresh : Nat, access : Nat]]
  BY DEF IInv, TypeInv
<1>2. ASSUME NEW x, Harmless(x), requests' = [requests EXCEPT ![r] = x],
             UNCHANGED <<sessions, signOuts, clients>>
      PROVE  IInv'
  BY <1>1, <1>2, HarmlessRequest, RequestStep
<1>3. CASE VerifyCommit(r) \/ RecordFailedLogin(r) \/ RequestDataAction(r)
  BY <1>2, <1>3, IdleHarmless DEF VerifyCommit, RecordFailedLogin, RequestDataAction, Continue
<1>4. CASE Fail(r)
  BY <1>2, <1>4, IdleHarmless DEF Fail, accountVars
<1>5. CASE SavePersonal(r)
  BY <1>2, <1>5, IdleHarmless DEF SavePersonal, Continue, accountVars
<1>6. CASE NotifyCommit(r, FALSE) \/ NotifyCommit(r, TRUE)
  BY <1>2, <1>6, IdleHarmless DEF NotifyCommit, accountVars
<1>7. ASSUME NEW t \in DOMAIN tokens, VerifyRead(r, t)
      PROVE  IInv'
  <2> DEFINE x == [step |-> "verify", token |-> t, found |-> account.status]
  <2>1. Harmless(x)
    BY DEF Harmless
  <2>2. requests' = [requests EXCEPT ![r] = x] /\ UNCHANGED <<sessions, signOuts, clients>>
    BY <1>7 DEF VerifyRead, Begin, accountVars
  <2> HIDE DEF x
  <2> QED BY <1>2, <2>1, <2>2
<1>8. ASSUME NEW c \in Clients, NEW effect, Authorize(r, c, effect)
      PROVE  IInv'
  <2> DEFINE x == [step |-> "authorized", effect |-> effect, early |-> ~account.deleted]
  <2>1. Harmless(x)
    BY DEF Harmless
  <2>2. requests' = [requests EXCEPT ![r] = x] /\ UNCHANGED <<sessions, signOuts, clients>>
    BY <1>8 DEF Authorize, Begin, accountVars
  <2> HIDE DEF x
  <2> QED BY <1>2, <2>1, <2>2
<1>9. ASSUME NEW message \in messages, NotifyRead(r, message)
      PROVE  IInv'
  <2> DEFINE x == [step |-> "notify", message |-> message, version |-> gameVersion,
                   change |-> changes, follows |-> "favorite" \in personal]
  <2>1. Harmless(x)
    BY DEF Harmless
  <2>2. requests' = [requests EXCEPT ![r] = x] /\ UNCHANGED <<sessions, signOuts, clients>>
    BY <1>9 DEF NotifyRead, Continue, accountVars
  <2> HIDE DEF x
  <2> QED BY <1>2, <2>1, <2>2
<1> QED BY <1>3, <1>4, <1>5, <1>6, <1>7, <1>8, <1>9 DEF Quiet

LEMMA LoginReadKeeps ==
  ASSUME IInv, NEW r \in Requests, NEW c \in Clients, NEW correct \in BOOLEAN,
         LoginRead(r, c, correct)
  PROVE  IInv'
<1>1. clients' \in [Clients -> [refresh : Nat, access : Nat]] /\ UNCHANGED <<sessions, signOuts>>
  BY DEF IInv, TypeInv, LoginRead, accountVars
<1>2. CASE correct
  <2> DEFINE x == [step |-> "verified", client |-> c, since |-> signOuts]
  <2>1. x.step = "verified" /\ x \in [step : {"verified"}, client : Clients \cup {None}, since : Nat]
    BY DEF IInv, TypeInv
  <2>2. requests' = [requests EXCEPT ![r] = x]
    BY <1>2 DEF LoginRead, Begin
  <2> HIDE DEF x
  <2>3. RequestInv(x)
    BY <2>1 DEF RequestInv, Shape
  <2> QED BY <1>1, <2>1, <2>2, <2>3, RequestStep
<1>3. CASE ~correct
  <2> DEFINE x == [step |-> "mistaken", client |-> c, failures |-> account.failures]
  <2>1. Harmless(x)
    BY DEF Harmless
  <2>2. requests' = [requests EXCEPT ![r] = x]
    BY <1>3 DEF LoginRead, Begin
  <2> HIDE DEF x
  <2> QED BY <1>1, <2>1, <2>2, HarmlessRequest, RequestStep
<1> QED BY <1>2, <1>3

LEMMA RefreshReadKeeps ==
  ASSUME IInv, NEW r \in Requests, NEW c \in Clients, RefreshRead(r, c)
  PROVE  IInv'
<1> DEFINE s == clients[c].refresh
           reuse == [step |-> "revoking", effect |-> "reuse", client |-> c,
                     scope |-> {a \in Active : sessions[a].family = sessions[s].family}]
           refresh == [step |-> "refresh", client |-> c, session |-> s, since |-> signOuts]
<1>1. /\ clients' \in [Clients -> [refresh : Nat, access : Nat]]
      /\ UNCHANGED <<sessions, signOuts>>
  BY DEF IInv, TypeInv, RefreshRead, accountVars
<1>2. /\ s \in Nat /\ signOuts \in Nat
      /\ s \in DOMAIN sessions /\ sessions[s].born <= signOuts
  BY DEF IInv, TypeInv, FamiliesInv, RefreshRead
<1>3. requests' = [requests EXCEPT ![r] = IF sessions[s].revoked THEN reuse ELSE refresh]
  BY DEF RefreshRead, Begin
<1>4. /\ reuse.step = "revoking" /\ reuse.effect = "reuse"
      /\ reuse \in [step : {"revoking"}, effect : {"reuse"}, client : Clients \cup {None},
                    scope : SUBSET Nat]
  BY Rows DEF IInv
<1>5. /\ refresh.step = "refresh" /\ refresh.session = s /\ refresh.since = signOuts
      /\ refresh \in [step : {"refresh", "rotating"}, client : Clients \cup {None},
                      session : Nat, since : Nat]
  BY <1>2
<1> HIDE DEF s, reuse, refresh
<1>6. RequestInv(reuse) /\ RequestInv(refresh)
  BY <1>2, <1>4, <1>5 DEF RequestInv, Shape
<1>7. CASE sessions[s].revoked
  BY <1>1, <1>3, <1>4, <1>6, <1>7, RequestStep
<1>8. CASE ~sessions[s].revoked
  BY <1>1, <1>3, <1>5, <1>6, <1>8, RequestStep
<1> QED BY <1>7, <1>8

LEMMA RefusedTyped ==
  ASSUME TypeInv, NEW c
  PROVE  Refused(c) \in [Clients -> [refresh : Nat, access : Nat]]
  BY DEF TypeInv, Refused, None

LEMMA AnswersKeep ==
  ASSUME IInv, NEW r \in Requests, AnswerArrives(r) \/ AnswerLost(r) \/ RefreshFails(r)
  PROVE  IInv'
<1>1. requests' = [requests EXCEPT ![r] = Idle] /\ UNCHANGED <<sessions, signOuts>>
  BY DEF AnswerArrives, AnswerLost, RefreshFails, Continue, accountVars
<1>2. clients' \in [Clients -> [refresh : Nat, access : Nat]]
  <2>1. CASE AnswerArrives(r)
    <3>1. requests[r].client \in Clients /\ requests[r].session \in Nat
      BY <2>1 DEF AnswerArrives, IInv, RequestInv, Shape
    <3> QED BY <2>1, <3>1 DEF AnswerArrives, IInv, TypeInv
  <2>2. CASE AnswerLost(r) \/ RefreshFails(r)
    BY <2>2, RefusedTyped DEF AnswerLost, RefreshFails, IInv, TypeInv
  <2> QED BY <2>1, <2>2
<1> QED BY <1>1, <1>2, IdleHarmless, HarmlessRequest, RequestStep

\* A statement that signs everybody out begins with all that is active in its scope.
LEMMA SnapshotKeeps ==
  ASSUME IInv, NEW r \in Requests, NEW effect, effect # "reuse", NEW token,
         requests' = [requests EXCEPT ![r] =
           [step |-> "revoking", effect |-> effect, client |-> None, token |-> token,
            scope |-> EverySession, known |-> Len(sessions)]],
         UNCHANGED <<sessions, signOuts, clients>>
  PROVE  IInv'
<1> DEFINE x == [step |-> "revoking", effect |-> effect, client |-> None, token |-> token,
                 scope |-> EverySession, known |-> Len(sessions)]
<1>1. /\ x.step = "revoking" /\ x.effect # "reuse"
      /\ x.known = Len(sessions) /\ x.scope = Active
  BY DEF EverySession
<1>2. requests' = [requests EXCEPT ![r] = x]
  OBVIOUS
<1> HIDE DEF x
<1>3. RequestInv(x)
  <2>1. Len(sessions) \in Nat
    BY Rows DEF IInv
  <2> QED BY <1>1, <2>1 DEF RequestInv, Shape
<1>4. clients' \in [Clients -> [refresh : Nat, access : Nat]]
  BY DEF IInv, TypeInv
<1> QED BY <1>1, <1>2, <1>3, <1>4, RequestStep

LEMMA SigningOutKeeps ==
  ASSUME IInv, NEW r \in Requests,
         SignOutAll(r) \/ DeletionStarts(r) \/ \E t \in DOMAIN tokens : ResetRead(r, t)
  PROVE  IInv'
<1>1. CASE SignOutAll(r)
  <2>1. requests[r].effect # "reuse"
    BY <1>1 DEF SignOutAll, IInv, RequestInv, Shape
  <2> QED BY <1>1, <2>1, SnapshotKeeps DEF SignOutAll, Continue, accountVars
<1>2. CASE DeletionStarts(r)
  BY <1>2, SnapshotKeeps DEF DeletionStarts, Continue, accountVars
<1>3. ASSUME NEW t \in DOMAIN tokens, ResetRead(r, t)
      PROVE  IInv'
  <2> DEFINE x == [step |-> "reset", effect |-> "reset", token |-> t]
  <2>1. x.step = "reset" /\ x.effect = "reset"
    OBVIOUS
  <2>2. requests' = [requests EXCEPT ![r] = x] /\ UNCHANGED <<sessions, signOuts, clients>>
    BY <1>3 DEF ResetRead, Begin, accountVars
  <2> HIDE DEF x
  <2>3. RequestInv(x)
    BY <2>1 DEF RequestInv, Shape
  <2>4. clients' \in [Clients -> [refresh : Nat, access : Nat]]
    BY <2>2 DEF IInv, TypeInv
  <2> QED BY <2>1, <2>2, <2>3, <2>4, RequestStep
<1> QED BY <1>1, <1>2, <1>3
-----------------------------------------------------------------------------
\* Steps that change sessions, or more than one request.
LEMMA LapseKeeps ==
  ASSUME IInv, Lapse
  PROVE  IInv'
<1>1. UNCHANGED <<signOuts, clients, requests>>
  BY DEF Lapse
<1>2. CASE UNCHANGED sessions
  BY <1>1, <1>2, SameSessions
<1>3. ASSUME NEW s \in Active, sessions' = [sessions EXCEPT ![s].lapsed = TRUE]
      PROVE  IInv'
  <2>1. sessions \in Seq(Session) /\ s \in DOMAIN sessions
    BY DEF IInv, TypeInv, Active
  <2>2. [sessions[s] EXCEPT !.lapsed = TRUE] \in Session /\ sessions[s] \in Session
    BY <2>1, Rows DEF IInv, Session
  <2>3. /\ sessions' \in Seq(Session) /\ Len(sessions') = Len(sessions)
        /\ \A u \in DOMAIN sessions : sessions'[u] =
             IF u = s THEN [sessions[s] EXCEPT !.lapsed = TRUE] ELSE sessions[u]
    BY <1>3, <2>1, <2>2
  <2>4. \A u \in DOMAIN sessions :
          /\ sessions'[u].family = sessions[u].family /\ sessions'[u].born = sessions[u].born
          /\ sessions'[u].late = sessions[u].late /\ sessions'[u].revoked = sessions[u].revoked
          /\ sessions'[u].since = sessions[u].since
    BY <2>2, <2>3 DEF Session
  <2>5. TypeInv' /\ RotationsDistinct'
    BY <1>1, <2>3 DEF IInv, TypeInv, RotationsDistinct
  <2>6. \A q \in Requests : RequestInv(requests'[q])
    BY <1>1 DEF IInv
  <2>7. \A q \in Requests :
          requests'[q].step = "rotating" => ~sessions'[requests'[q].session].revoked
    BY <2>4, <2>6 DEF RequestInv, Active
  <2>8. signOuts \in Nat
    BY DEF IInv, TypeInv
  <2>9. HeldStay
    BY <1>1, <2>3, <2>4, <2>6, <2>7, <2>8 DEF HeldStay, RowsStay
  <2> QED BY <2>5, <2>9, SessionsStand
<1> QED BY <1>2, <1>3 DEF Lapse

LEMMA LogoutKeeps ==
  ASSUME IInv, NEW c \in Clients, Logout(c)
  PROVE  IInv'
<1> DEFINE s == clients[c].access
<1>1. /\ UNCHANGED <<signOuts, requests>>
      /\ clients' \in [Clients -> [refresh : Nat, access : Nat]]
  <2>1. clients \in [Clients -> [refresh : Nat, access : Nat]]
    BY DEF IInv, TypeInv
  <2> QED BY <2>1 DEF Logout, None
<1>2. \/ UNCHANGED sessions
      \/ s \in Active \ Locked /\ sessions' = [sessions EXCEPT ![s].revoked = TRUE]
  BY DEF Logout, CanAct
<1> HIDE DEF s
<1>3. /\ sessions' \in Seq(Session) /\ Len(sessions') = Len(sessions)
      /\ \A u \in DOMAIN sessions :
           /\ sessions'[u].family = sessions[u].family /\ sessions'[u].born = sessions[u].born
           /\ sessions'[u].late = sessions[u].late /\ sessions'[u].since = sessions[u].since
           /\ sessions[u].revoked => sessions'[u].revoked
           /\ u \in Locked => sessions'[u].revoked = sessions[u].revoked
  <2>1. CASE UNCHANGED sessions
    BY <2>1 DEF IInv, TypeInv
  <2>2. CASE s \in Active \ Locked /\ sessions' = [sessions EXCEPT ![s].revoked = TRUE]
    <3>1. sessions \in Seq(Session) /\ s \in DOMAIN sessions
      BY <2>2 DEF IInv, TypeInv, Active
    <3>2. [sessions[s] EXCEPT !.revoked = TRUE] \in Session /\ sessions[s] \in Session
      BY <3>1, Rows DEF IInv, Session
    <3>3. /\ sessions' \in Seq(Session) /\ Len(sessions') = Len(sessions)
          /\ \A u \in DOMAIN sessions : sessions'[u] =
               IF u = s THEN [sessions[s] EXCEPT !.revoked = TRUE] ELSE sessions[u]
      BY <2>2, <3>1, <3>2
    <3> QED BY <2>2, <3>2, <3>3 DEF Session
  <2> QED BY <1>2, <2>1, <2>2
<1>4. TypeInv' /\ RotationsDistinct'
  BY <1>1, <1>3 DEF IInv, TypeInv, RotationsDistinct
<1>5. \A q \in Requests : RequestInv(requests'[q])
  BY <1>1 DEF IInv
<1>6. \A q \in Requests :
        requests'[q].step = "rotating" => ~sessions'[requests'[q].session].revoked
  <2> SUFFICES ASSUME NEW q \in Requests, requests'[q].step = "rotating"
               PROVE  ~sessions'[requests'[q].session].revoked
    OBVIOUS
  <2>1. requests'[q] = requests[q] /\ requests[q].session \in Active \cap Locked
    BY <1>1, <1>5 DEF RequestInv, Locked
  <2> QED BY <1>3, <2>1 DEF Active
<1>7. signOuts \in Nat
  BY DEF IInv, TypeInv
<1>8. HeldStay
  BY <1>1, <1>3, <1>5, <1>6, <1>7 DEF HeldStay, RowsStay
<1> QED BY <1>4, <1>8, SessionsStand

LEMMA RotateKeeps ==
  ASSUME IInv, NEW r \in Requests, Rotate(r)
  PROVE  IInv'
<1> DEFINE x == [requests[r] EXCEPT !.step = "rotating"]
<1>1. /\ requests[r].step = "refresh" /\ requests[r].session \in Active \ Locked
      /\ requests' = [requests EXCEPT ![r] = x]
      /\ UNCHANGED <<sessions, signOuts, clients>>
  BY DEF Rotate, Continue, StillActive, accountVars
<1>2. /\ x \in [step : {"refresh", "rotating"}, client : Clients \cup {None}, session : Nat,
                since : Nat]
      /\ x.step = "rotating" /\ x.session = requests[r].session /\ x.since = requests[r].since
  BY <1>1 DEF IInv, RequestInv, Shape
<1> HIDE DEF x
<1>3. /\ requests' = [q \in Requests |-> requests'[q]] /\ requests'[r] = x
      /\ \A q \in Requests : q # r => requests'[q] = requests[q]
  BY <1>1 DEF IInv, TypeInv
<1>4. RequestInv(x)
  <2>1. x.session \in DOMAIN sessions /\ sessions[x.session].born <= x.since
    BY <1>1, <1>2 DEF IInv, RequestInv
  <2> QED BY <1>1, <1>2, <2>1 DEF RequestInv, Shape
<1>5. \A q \in Requests : RequestInv(requests'[q])
  BY <1>3, <1>4 DEF IInv
<1>6. RotationsDistinct'
  <2>1. \A q \in Requests : q # r /\ requests'[q].step = "rotating"
                           => requests'[q].session # x.session
    BY <1>1, <1>2, <1>3 DEF Locked
  <2> QED BY <1>3, <2>1 DEF IInv, RotationsDistinct
<1>7. \A q \in Requests :
        requests'[q].step = "rotating" => ~sessions'[requests'[q].session].revoked
  BY <1>1, <1>5 DEF RequestInv, Active
<1>8. TypeInv'
  BY <1>1, <1>3 DEF IInv, TypeInv
<1>9. signOuts \in Nat
  BY DEF IInv, TypeInv
<1>10. HeldStay
  BY <1>1, <1>5, <1>7, <1>9 DEF HeldStay, RowsStay
<1> QED BY <1>6, <1>8, <1>10, SessionsStand

\* A request that nobody waits for any more goes on as it was.
LEMMA Unawaited ==
  ASSUME NEW x, RequestInv(x),
         \/ x.step \in {"refresh", "rotating", "verified"}
         \/ x.step = "revoking" /\ x.effect = "reuse",
         NEW y, y = [x EXCEPT !.client = None]
  PROVE  /\ RequestInv(y) /\ y.step = x.step
         /\ x.step = "rotating" => y.session = x.session
         /\ x.step = "revoking" => y.effect = "reuse"
<1>1. CASE x.step \in {"refresh", "rotating"}
  <2>1. /\ y \in [step : {"refresh", "rotating"}, client : Clients \cup {None}, session : Nat,
                  since : Nat]
        /\ y.step = x.step /\ y.session = x.session /\ y.since = x.since
    BY <1>1 DEF RequestInv, Shape
  <2> QED BY <1>1, <2>1 DEF RequestInv, Shape
<1>2. CASE x.step = "verified"
  <2>1. y \in [step : {"verified"}, client : Clients \cup {None}, since : Nat] /\ y.step = x.step
    BY <1>2 DEF RequestInv, Shape
  <2> QED BY <1>2, <2>1 DEF RequestInv, Shape
<1>3. CASE x.step = "revoking" /\ x.effect = "reuse"
  <2>1. /\ y \in [step : {"revoking"}, effect : {"reuse"}, client : Clients \cup {None},
                  scope : SUBSET Nat]
        /\ y.step = x.step /\ y.effect = "reuse"
    BY <1>3 DEF RequestInv, Shape
  <2> QED BY <1>3, <2>1 DEF RequestInv, Shape
<1> QED BY <1>1, <1>2, <1>3

LEMMA ClientStopsKeeps ==
  ASSUME IInv, NEW c \in Clients, ClientStops(c)
  PROVE  IInv'
<1> DEFINE awaited(q) == /\ Refreshing(q) \/ requests[q].step \in {"verified", "answer"}
                         /\ requests[q].client = c
<1>1. UNCHANGED <<sessions, signOuts>> /\ clients' = [clients EXCEPT ![c].access = None]
  BY DEF ClientStops, accountVars
<1>2. requests' = [q \in Requests |->
        IF ~awaited(q) THEN requests[q]
        ELSE IF requests[q].step = "answer" THEN Idle
        ELSE [requests[q] EXCEPT !.client = None]]
  BY DEF ClientStops
<1>3. ASSUME NEW q \in Requests
      PROVE  /\ RequestInv(requests'[q])
             /\ requests'[q].step = "rotating" =>
                  requests[q].step = "rotating" /\ requests'[q].session = requests[q].session
  <2>1. RequestInv(requests[q])
    BY DEF IInv
  <2>2. CASE ~awaited(q)
    <3>1. requests'[q] = requests[q]
      BY <1>2, <2>2
    <3> QED BY <2>1, <3>1
  <2>3. CASE awaited(q) /\ requests[q].step = "answer"
    <3>1. requests'[q] = Idle
      BY <1>2, <2>3
    <3> QED BY <3>1, IdleHarmless, HarmlessRequest
  <2>4. CASE awaited(q) /\ requests[q].step # "answer"
    <3>1. requests'[q] = [requests[q] EXCEPT !.client = None]
      BY <1>2, <2>4
    <3>2. \/ requests[q].step \in {"refresh", "rotating", "verified"}
          \/ requests[q].step = "revoking" /\ requests[q].effect = "reuse"
      BY <2>4 DEF Refreshing
    <3> QED BY <2>1, <3>1, <3>2, Unawaited
  <2> QED BY <2>2, <2>3, <2>4
<1>4. requests' = [q \in Requests |-> requests'[q]]
  BY <1>2
<1> HIDE DEF awaited
<1>5. TypeInv'
  BY <1>1, <1>4 DEF IInv, TypeInv, None
<1>6. RotationsDistinct'
  BY <1>3 DEF IInv, RotationsDistinct
<1>7. \A q \in Requests :
        requests'[q].step = "rotating" => ~sessions'[requests'[q].session].revoked
  BY <1>1, <1>3 DEF RequestInv, Active
<1>8. signOuts \in Nat
  BY DEF IInv, TypeInv
<1>9. HeldStay
  BY <1>1, <1>3, <1>7, <1>8 DEF HeldStay, RowsStay
<1> QED BY <1>5, <1>6, <1>9, SessionsStand

\* A statement that signs everybody out commits: what is still active was inserted after
\* its snapshot, and is marked late.
LEMMA SignedOut ==
  ASSUME IInv, NEW r \in Requests,
         requests[r].step = "revoking", requests[r].effect # "reuse",
         requests[r].scope \cap Locked = {},
         sessions' = Revoked(requests[r]), signOuts' = signOuts + 1,
         requests' = [requests EXCEPT ![r] = Idle], UNCHANGED clients
  PROVE  IInv'
<1> DEFINE x == requests[r]
<1>1. /\ x.known \in Nat /\ x.known <= Len(sessions)
      /\ \A s \in Active : s <= x.known => s \in x.scope
  BY DEF IInv, RequestInv
<1>2. x.scope \cap Locked = {} /\ sessions' = Revoked(x)
  OBVIOUS
<1> HIDE DEF x
<1>3. /\ Len(sessions) \in Nat /\ DOMAIN sessions = 1..Len(sessions) /\ signOuts \in Nat
      /\ \A s \in DOMAIN sessions : s \in Nat /\ sessions[s] \in Session
  BY Rows DEF IInv, TypeInv
<1>4. \A s \in DOMAIN sessions :
        /\ sessions'[s] \in Session /\ sessions'[s].family = sessions[s].family
        /\ sessions'[s].born = sessions[s].born
        /\ sessions'[s].revoked = (sessions[s].revoked \/ s \in x.scope)
        /\ s > x.known => sessions'[s].late = signOuts + 1
  <2> SUFFICES ASSUME NEW s \in DOMAIN sessions
               PROVE  /\ sessions'[s] \in Session /\ sessions'[s].family = sessions[s].family
                      /\ sessions'[s].born = sessions[s].born
                      /\ sessions'[s].revoked = (sessions[s].revoked \/ s \in x.scope)
                      /\ s > x.known => sessions'[s].late = signOuts + 1
    OBVIOUS
  <2> DEFINE late == IF s > x.known THEN signOuts + 1 ELSE sessions[s].late
             revoked == sessions[s].revoked \/ s \in x.scope
  <2>1. sessions'[s] = [sessions[s] EXCEPT !.revoked = revoked, !.late = late]
    BY <1>2 DEF Revoked
  <2>2. sessions[s] \in Session
    BY <1>3
  <2>3. revoked \in BOOLEAN /\ late \in Nat /\ (s > x.known => late = signOuts + 1)
    BY <1>3, <2>2 DEF Session
  <2> HIDE DEF late
  <2>4. revoked = (sessions[s].revoked \/ s \in x.scope)
    OBVIOUS
  <2> HIDE DEF revoked
  <2>5. /\ sessions'[s] \in Session /\ sessions'[s].family = sessions[s].family
        /\ sessions'[s].born = sessions[s].born
        /\ sessions'[s].revoked = revoked /\ sessions'[s].late = late
    BY <2>1, <2>2, <2>3 DEF Session
  <2> QED BY <2>3, <2>4, <2>5
<1>5. sessions' \in Seq(Session) /\ Len(sessions') = Len(sessions)
  <2>1. sessions' \in [1..Len(sessions) -> Session]
    BY <1>2, <1>3, <1>4 DEF Revoked
  <2> QED BY <1>3, <2>1
<1>6. DOMAIN sessions' = DOMAIN sessions
  BY <1>3, <1>5, LenProperties
<1>7. /\ \A q \in Requests : RequestInv(requests'[q])
      /\ \A q \in Requests : requests'[q].step = "rotating" =>
           q # r /\ requests'[q] = requests[q] /\ requests'[q].session \in Active
      /\ RotationsDistinct' /\ requests' = [q \in Requests |-> requests'[q]]
  BY OneRequest, IdleHarmless, HarmlessRequest
<1>8. TypeInv'
  BY <1>3, <1>5, <1>7 DEF IInv, TypeInv
<1>9. \A s \in Active' : sessions'[s].late = signOuts'
  <2> SUFFICES ASSUME NEW s \in Active'
               PROVE  sessions'[s].late = signOuts'
    OBVIOUS
  <2>1. s \in DOMAIN sessions /\ s \in Active /\ s \notin x.scope
    BY <1>4, <1>6 DEF Active
  <2>2. s > x.known
    BY <1>1, <1>3, <2>1
  <2> QED BY <1>4, <2>1, <2>2
<1>10. Outlived' /\ SignOutReachesAll'
  BY <1>9 DEF Outlived, SignOutReachesAll
<1>11. \A q \in Requests :
         requests'[q].step = "rotating" => ~sessions'[requests'[q].session].revoked
  <2> SUFFICES ASSUME NEW q \in Requests, requests'[q].step = "rotating"
               PROVE  ~sessions'[requests'[q].session].revoked
    OBVIOUS
  <2>1. requests[q].step = "rotating" /\ requests'[q].session = requests[q].session
        /\ requests[q].session \in Active
    BY <1>7
  <2>2. requests[q].session \in Locked
    BY <2>1 DEF Locked
  <2> QED BY <1>2, <1>4, <2>1, <2>2 DEF Active
<1>12. RowsStay
  <2>1. signOuts <= signOuts' /\ (\A q \in Requests : RequestInv(requests'[q]))
    BY <1>3, <1>7
  <2>2. \A s \in DOMAIN sessions :
          /\ sessions'[s].family = sessions[s].family /\ sessions'[s].born = sessions[s].born
          /\ sessions[s].revoked => sessions'[s].revoked
    BY <1>4
  <2> QED BY <1>5, <1>11, <2>1, <2>2 DEF RowsStay
<1> QED BY <1>7, <1>8, <1>10, <1>12, RowsStand

LEMMA RevokeKeeps ==
  ASSUME IInv, NEW r \in Requests, RevokeCommit(r) \/ CompleteDeletion(r)
  PROVE  IInv'
  BY SignedOut DEF RevokeCommit, CompleteDeletion, Continue

LEMMA ReuseKeeps ==
  ASSUME IInv, NEW r \in Requests, ReuseCommit(r)
  PROVE  IInv'
<1> DEFINE scope == requests[r].scope
<1>1. /\ scope \cap Locked = {}
      /\ sessions' = [s \in DOMAIN sessions |->
                       [sessions[s] EXCEPT !.revoked = @ \/ s \in scope]]
      /\ UNCHANGED signOuts /\ clients' = Refused(requests[r].client)
      /\ requests' = [requests EXCEPT ![r] = Idle]
  BY DEF ReuseCommit, Continue
<1> HIDE DEF scope
<1>2. /\ Len(sessions) \in Nat /\ DOMAIN sessions = 1..Len(sessions) /\ signOuts \in Nat
      /\ \A s \in DOMAIN sessions : s \in Nat /\ sessions[s] \in Session
  BY Rows DEF IInv, TypeInv
<1>3. \A s \in DOMAIN sessions :
        /\ sessions'[s] \in Session /\ sessions'[s].family = sessions[s].family
        /\ sessions'[s].born = sessions[s].born /\ sessions'[s].late = sessions[s].late
        /\ sessions'[s].since = sessions[s].since
        /\ sessions'[s].revoked = (sessions[s].revoked \/ s \in scope)
  <2> SUFFICES ASSUME NEW s \in DOMAIN sessions
               PROVE  /\ sessions'[s] \in Session /\ sessions'[s].family = sessions[s].family
                      /\ sessions'[s].born = sessions[s].born
                      /\ sessions'[s].late = sessions[s].late
                      /\ sessions'[s].since = sessions[s].since
                      /\ sessions'[s].revoked = (sessions[s].revoked \/ s \in scope)
    OBVIOUS
  <2>1. sessions'[s] = [sessions[s] EXCEPT !.revoked = @ \/ s \in scope]
    BY <1>1
  <2>2. sessions[s] \in Session /\ (sessions[s].revoked \/ s \in scope) \in BOOLEAN
    BY <1>2
  <2> QED BY <2>1, <2>2 DEF Session
<1>4. sessions' \in Seq(Session) /\ Len(sessions') = Len(sessions)
  <2>1. sessions' \in [1..Len(sessions) -> Session]
    BY <1>1, <1>2, <1>3
  <2> QED BY <1>2, <2>1
<1>5. /\ \A q \in Requests : RequestInv(requests'[q])
      /\ \A q \in Requests : requests'[q].step = "rotating" =>
           q # r /\ requests'[q] = requests[q] /\ requests'[q].session \in Active
      /\ RotationsDistinct' /\ requests' = [q \in Requests |-> requests'[q]]
  BY <1>1, OneRequest, IdleHarmless, HarmlessRequest
<1>6. TypeInv'
  BY <1>1, <1>4, <1>5, RefusedTyped DEF IInv, TypeInv
<1>7. \A q \in Requests :
        requests'[q].step = "rotating" => ~sessions'[requests'[q].session].revoked
  <2> SUFFICES ASSUME NEW q \in Requests, requests'[q].step = "rotating"
               PROVE  ~sessions'[requests'[q].session].revoked
    OBVIOUS
  <2>1. requests[q].step = "rotating" /\ requests'[q].session = requests[q].session
        /\ requests[q].session \in Active
    BY <1>5
  <2>2. requests[q].session \in Locked
    BY <2>1 DEF Locked
  <2> QED BY <1>1, <1>3, <2>1, <2>2 DEF Active
<1>8. \A s \in DOMAIN sessions :
        /\ sessions'[s].family = sessions[s].family /\ sessions'[s].born = sessions[s].born
        /\ sessions'[s].late = sessions[s].late /\ sessions'[s].since = sessions[s].since
        /\ sessions[s].revoked => sessions'[s].revoked
  BY <1>3
<1>9. HeldStay
  <2>1. signOuts <= signOuts' /\ signOuts' = signOuts
    BY <1>1, <1>2
  <2>2. \A q \in Requests : RequestInv(requests'[q])
    BY <1>5
  <2>3. RowsStay
    BY <1>4, <1>7, <1>8, <2>1, <2>2 DEF RowsStay
  <2> QED BY <1>8, <2>1, <2>3 DEF HeldStay
<1> QED BY <1>5, <1>6, <1>9, SessionsStand
-----------------------------------------------------------------------------
LEMMA Initial == Init => IInv
<1> SUFFICES ASSUME Init
             PROVE  IInv
  OBVIOUS
<1>1. /\ sessions = <<>> /\ signOuts = 0
      /\ clients = [c \in Clients |-> [refresh |-> None, access |-> None]]
      /\ requests = [r \in Requests |-> Idle]
  BY DEF Init, SessionsInit
<1>2. Active = {} /\ DOMAIN sessions = {}
  BY <1>1 DEF Active
<1>3. TypeInv
  BY <1>1 DEF TypeInv, None
<1>4. \A r \in Requests : RequestInv(requests[r]) /\ requests[r].step # "rotating"
  BY <1>1, IdleHarmless, HarmlessRequest
<1> QED BY <1>2, <1>3, <1>4
        DEF IInv, FamiliesInv, OneActivePerFamily, SignOutReachesAll, Outlived, RotationsDistinct

LEMMA Inductive == IInv /\ [Next]_vars => IInv'
<1> SUFFICES ASSUME IInv, [Next]_vars
             PROVE  IInv'
  OBVIOUS
<1>1. CASE UNCHANGED vars
  BY <1>1, SameSessions DEF vars, sessionVars, accountVars
<1>2. CASE Progress
  <2>1. ASSUME NEW r \in Requests, Handling(r)
        PROVE  IInv'
    BY <2>1, QuietKeeps, CreateSessionKeeps, RotateKeeps, RotateCommitKeeps, AnswersKeep,
       SigningOutKeeps, RevokeKeeps, ReuseKeeps DEF Handling, Quiet
  <2>2. ASSUME NEW r \in Requests, DeletionStarts(r) \/ CompleteDeletion(r)
        PROVE  IInv'
    BY <2>2, SigningOutKeeps, RevokeKeeps
  <2>3. ASSUME NEW r \in Requests, SavePersonal(r) \/ NotifyCommit(r, FALSE)
                                   \/ \E message \in messages : NotifyRead(r, message)
        PROVE  IInv'
    BY <2>3, QuietKeeps DEF Quiet
  <2>4. CASE \/ CompleteExport \/ \E t \in DOMAIN tokens : SendAuthEmail(t)
             \/ \E q \in rescheduling : RescheduleCommit(q)
    BY <2>4, SameSessions, GameMovesApart DEF CompleteExport, SendAuthEmail, GameMoves, accountVars
  <2> QED BY <1>2, <2>1, <2>2, <2>3, <2>4 DEF Progress
<1>3. CASE Events
  <2>1. ASSUME NEW r \in Requests, Arrivals(r)
        PROVE  IInv'
    <3>1. ASSUME NEW t \in DOMAIN tokens, VerifyRead(r, t) \/ ResetRead(r, t)
          PROVE  IInv'
      BY <3>1, QuietKeeps, SigningOutKeeps DEF Quiet
    <3>2. ASSUME NEW c \in Clients, \/ \E correct \in BOOLEAN : LoginRead(r, c, correct)
                                    \/ RefreshRead(r, c)
                                    \/ \E effect : Authorize(r, c, effect)
          PROVE  IInv'
      BY <3>2, LoginReadKeeps, RefreshReadKeeps, QuietKeeps DEF Quiet
    <3>3. CASE AnswerLost(r) \/ Fail(r)
      BY <3>3, AnswersKeep, QuietKeeps DEF Quiet
    <3> QED BY <2>1, <3>1, <3>2, <3>3 DEF Arrivals
  <2>2. CASE Register \/ RequestPasswordReset
    BY <2>2, SameSessions DEF Register, RequestPasswordReset
  <2>3. CASE Lapse
    BY <2>3, LapseKeeps
  <2>4. ASSUME NEW c \in Clients, ClientStops(c) \/ Logout(c)
        PROVE  IInv'
    BY <2>4, ClientStopsKeeps, LogoutKeeps
  <2>5. CASE ChangeGame \/ RescheduleRead
    BY <2>5, SameSessions, GameMovesApart DEF GameMoves, accountVars
  <2>6. ASSUME NEW r \in Requests, NotifyCommit(r, TRUE)
        PROVE  IInv'
    BY <2>6, QuietKeeps DEF Quiet
  <2> QED BY <1>3, <2>1, <2>2, <2>3, <2>4, <2>5, <2>6 DEF Events
<1> QED BY <1>1, <1>2, <1>3 DEF Next

\* Whatever refreshes, retries and tabs present its tokens, a sign-in goes on in one place
\* only: refresh revokes the presented session and inserts its successor in a transaction
\* that other revocations wait for (auth.service.ts:190-237).
THEOREM OneSignIn == Spec => []OneActivePerFamily
<1>1. IInv => OneActivePerFamily
  BY DEF IInv
<1> QED BY <1>1, Initial, Inductive, PTL DEF Spec

\* A reset or a change of the password, logout-all and a deletion leave nobody signed in
\* from before, for any number of logins and refreshes that race with them, except where
\* the statement (auth.service.ts:303, 347, 373; job-handler.service.ts:245) is overtaken:
\* by a session inserted while it ran, its successor, or a login that had verified the
\* password before.
THEOREM EveryoneSignedOut == Spec => []SignOutReachesAll
<1>1. IInv => SignOutReachesAll
  BY DEF IInv
<1> QED BY <1>1, Initial, Inductive, PTL DEF Spec
-----------------------------------------------------------------------------
\* Requests that may change the account's status later.
Concern(x) ==
  \/ x.step \in {"verify", "authorized"}
  \/ x.step = "revoking" /\ x.effect = "DELETION"

Token == [kind : {"verification", "reset"}, state : {"queued", "sent", "used", "lapsed"}]
Live(token) == token.kind = "verification" /\ token.state \in {"queued", "sent"}

AccountShape ==
  account = [status |-> account.status, password |-> account.password,
             failures |-> account.failures, locked |-> account.locked,
             deleted |-> account.deleted]

Unverified == account.status \in {"NONE", "PENDING_VERIFICATION"}

\* There is one token of a verification, good only while the account is pending; who could
\* ask for deletion has verified the account.
LeavingInv ==
  /\ AccountShape /\ tokens \in Seq(Token)
  /\ \A t, u \in DOMAIN tokens :
       /\ tokens[t].kind = "verification" => account.status # "NONE"
       /\ tokens[t].kind = "verification" /\ tokens[u].kind = "verification" => t = u
       /\ Live(tokens[t]) => account.status = "PENDING_VERIFICATION"
  /\ "DELETION" \in queued => ~Unverified
  /\ \A r \in Requests : Concern(requests[r]) =>
       IF requests[r].step = "verify"
       THEN /\ requests[r].found = "PENDING_VERIFICATION" /\ requests[r].token \in DOMAIN tokens
            /\ tokens[requests[r].token].kind = "verification"
       ELSE ~Unverified

\* What most steps leave alone.
TokensAge ==
  /\ tokens' \in Seq(Token) /\ DOMAIN tokens' = DOMAIN tokens
  /\ \A t \in DOMAIN tokens :
       tokens'[t].kind = tokens[t].kind /\ (Live(tokens'[t]) => Live(tokens[t]))

Unconcerned == \A q \in Requests : Concern(requests'[q]) => requests'[q] = requests[q]

Framed ==
  /\ account'.status = account.status /\ AccountShape' /\ TokensAge
  /\ queued' \subseteq queued /\ Unconcerned

LEMMA FramedKeeps ==
  ASSUME LeavingInv, Framed
  PROVE  LeavingInv'
  BY DEF LeavingInv, Framed, TokensAge, Unconcerned, Unverified

LEMMA OneUnconcerned ==
  ASSUME IInv, NEW r \in Requests, NEW x, requests' = [requests EXCEPT ![r] = x], ~Concern(x)
  PROVE  Unconcerned
  BY DEF IInv, TypeInv, Unconcerned

LEMMA IdleUnconcerned == ~Concern(Idle)
  BY DEF Concern, Idle

LEMMA Unchanged ==
  ASSUME LeavingInv, UNCHANGED <<account, tokens, queued>>, Unconcerned
  PROVE  Framed
  BY DEF Framed, LeavingInv, AccountShape, TokensAge

LEMMA TokenMarked ==
  ASSUME LeavingInv, NEW t, NEW state \in {"sent", "used", "lapsed"},
         tokens' = [tokens EXCEPT ![t].state = state],
         state = "sent" => t \in DOMAIN tokens /\ tokens[t].state = "queued"
  PROVE  TokensAge
<1>1. tokens \in Seq(Token)
  BY DEF LeavingInv
<1>2. CASE t \in DOMAIN tokens
  <2>1. tokens[t] \in Token /\ [tokens[t] EXCEPT !.state = state] \in Token
    <3>1. tokens[t] \in Token
      BY <1>1, <1>2
    <3> QED BY <3>1 DEF Token
  <2>2. /\ tokens' \in Seq(Token) /\ DOMAIN tokens' = DOMAIN tokens
        /\ \A u \in DOMAIN tokens :
             tokens'[u] = IF u = t THEN [tokens[t] EXCEPT !.state = state] ELSE tokens[u]
    BY <1>1, <1>2, <2>1
  <2> QED BY <1>2, <2>1, <2>2 DEF TokensAge, Live, Token
<1>3. CASE t \notin DOMAIN tokens
  <2>1. tokens' = tokens
    BY <1>1, <1>3
  <2> QED BY <1>1, <2>1 DEF TokensAge
<1> QED BY <1>2, <1>3

\* Handlers, jobs and clients that leave the status alone.
Aside(r) ==
  \/ RecordFailedLogin(r) \/ CreateSession(r) \/ Rotate(r) \/ RotateCommit(r)
  \/ AnswerArrives(r) \/ AnswerLost(r) \/ RefreshFails(r) \/ Fail(r)
  \/ SignOutAll(r) \/ RevokeCommit(r) \/ ReuseCommit(r)
  \/ SavePersonal(r) \/ NotifyCommit(r, FALSE) \/ NotifyCommit(r, TRUE)
  \/ \E message \in messages : NotifyRead(r, message)
  \/ \E t \in DOMAIN tokens : ResetRead(r, t)
  \/ \E c \in Clients : RefreshRead(r, c) \/ \E correct \in BOOLEAN : LoginRead(r, c, correct)

LEMMA AsideFramed ==
  ASSUME IInv, LeavingInv, NEW r \in Requests, Aside(r)
  PROVE  Framed
<1>1. ASSUME requests' = [requests EXCEPT ![r] = Idle]
      PROVE  Unconcerned
  BY <1>1, IdleUnconcerned, OneUnconcerned
<1>2. CASE RecordFailedLogin(r)
  <2>1. Unconcerned
    BY <1>1, <1>2 DEF RecordFailedLogin, Continue
  <2>2. account'.status = account.status /\ AccountShape' /\ UNCHANGED <<tokens, queued>>
    BY <1>2 DEF RecordFailedLogin, LeavingInv, AccountShape
  <2> QED BY <2>1, <2>2 DEF Framed, LeavingInv, TokensAge
<1>3. CASE CreateSession(r)
  <2>1. Len(sessions) \in Nat
    BY Rows DEF IInv
  <2>2. PICK x : requests' = [requests EXCEPT ![r] = x] /\ x.step \in {"idle", "answer"}
    <3> DEFINE n == Len(sessions)
    <3>1. Answer(r, n + 1, TRUE) /\ requests[r].step \in {"verified", "rotating"}
      BY <1>3 DEF CreateSession
    <3> HIDE DEF n
    <3>2. n + 1 \in Nat /\ TRUE \in BOOLEAN
      BY <2>1 DEF n
    <3> QED BY <3>1, <3>2, AnswerRequest
  <2>3. Unconcerned
    BY <2>2, OneUnconcerned DEF Concern
  <2>4. account'.status = account.status /\ AccountShape' /\ UNCHANGED <<tokens, queued>>
    BY <1>3 DEF CreateSession, LeavingInv, AccountShape
  <2> QED BY <2>3, <2>4 DEF Framed, LeavingInv, TokensAge
<1>4. CASE RotateCommit(r)
  <2>1. Len(sessions) \in Nat
    BY Rows DEF IInv
  <2>2. PICK x : requests' = [requests EXCEPT ![r] = x] /\ x.step \in {"idle", "answer"}
    <3> DEFINE n == Len(sessions)
    <3>1. Answer(r, n + 1, FALSE) /\ requests[r].step \in {"verified", "rotating"}
      BY <1>4 DEF RotateCommit
    <3> HIDE DEF n
    <3>2. n + 1 \in Nat /\ FALSE \in BOOLEAN
      BY <2>1 DEF n
    <3> QED BY <3>1, <3>2, AnswerRequest
  <2>3. Unconcerned
    BY <2>2, OneUnconcerned DEF Concern
  <2> QED BY <1>4, <2>3, Unchanged DEF RotateCommit
<1>5. CASE Rotate(r)
  <2> DEFINE x == [requests[r] EXCEPT !.step = "rotating"]
  <2>1. requests[r] \in [step : {"refresh", "rotating"}, client : Clients \cup {None},
                         session : Nat, since : Nat]
    BY <1>5 DEF Rotate, IInv, RequestInv, Shape
  <2>2. x.step = "rotating"
    BY <2>1
  <2>3. requests' = [requests EXCEPT ![r] = x] /\ UNCHANGED <<account, tokens, queued>>
    BY <1>5 DEF Rotate, Continue, accountVars
  <2> HIDE DEF x
  <2> QED BY <2>2, <2>3, OneUnconcerned, Unchanged DEF Concern
<1>6. CASE AnswerArrives(r) \/ AnswerLost(r) \/ RefreshFails(r) \/ Fail(r)
  <2>1. requests' = [requests EXCEPT ![r] = Idle] /\ UNCHANGED <<account, tokens, queued>>
    BY <1>6 DEF AnswerArrives, AnswerLost, RefreshFails, Fail, Continue, accountVars
  <2> QED BY <1>1, <2>1, Unchanged
<1>7. CASE ReuseCommit(r) \/ SavePersonal(r) \/ NotifyCommit(r, FALSE) \/ NotifyCommit(r, TRUE)
  <2>1. requests' = [requests EXCEPT ![r] = Idle] /\ UNCHANGED <<account, tokens, queued>>
    BY <1>7 DEF ReuseCommit, SavePersonal, NotifyCommit, Continue, accountVars
  <2> QED BY <1>1, <2>1, Unchanged
<1>8. CASE SignOutAll(r)
  <2> DEFINE x == [step |-> "revoking", effect |-> requests[r].effect, client |-> None,
                   token |-> IF requests[r].step = "reset" THEN requests[r].token ELSE None,
                   scope |-> EverySession, known |-> Len(sessions)]
  <2>1. requests' = [requests EXCEPT ![r] = x] /\ UNCHANGED <<account, tokens, queued>>
    BY <1>8 DEF SignOutAll, Continue, accountVars
  <2>2. requests[r].effect \in {"reset", "change", "logoutAll"}
    BY <1>8 DEF SignOutAll, IInv, RequestInv, Shape
  <2>3. ~Concern(x)
    BY <2>2 DEF Concern
  <2> HIDE DEF x
  <2> QED BY <2>1, <2>3, OneUnconcerned, Unchanged
<1>9. CASE RevokeCommit(r)
  <2>1. requests' = [requests EXCEPT ![r] = Idle] /\ UNCHANGED queued
    BY <1>9 DEF RevokeCommit, Continue
  <2>2. account'.status = account.status /\ AccountShape'
    BY <1>9 DEF RevokeCommit, LeavingInv, AccountShape
  <2>3. TokensAge
    <3>1. CASE UNCHANGED tokens
      BY <3>1 DEF LeavingInv, TokensAge
    <3>2. CASE tokens' = [tokens EXCEPT ![requests[r].token].state = "used"]
      <4> DEFINE t == requests[r].token
                 state == "used"
      <4>1. tokens' = [tokens EXCEPT ![t].state = state]
        BY <3>2
      <4>2. state \in {"sent", "used", "lapsed"} /\ state # "sent"
        OBVIOUS
      <4> HIDE DEF t, state
      <4> QED BY <4>1, <4>2, TokenMarked
    <3> QED BY <1>9, <3>1, <3>2 DEF RevokeCommit
  <2> QED BY <1>1, <2>1, <2>2, <2>3 DEF Framed
<1>10. ASSUME NEW message \in messages, NotifyRead(r, message)
       PROVE  Framed
  <2> DEFINE x == [step |-> "notify", message |-> message, version |-> gameVersion,
                   change |-> changes, follows |-> "favorite" \in personal]
  <2>1. ~Concern(x)
    BY DEF Concern
  <2>2. requests' = [requests EXCEPT ![r] = x] /\ UNCHANGED <<account, tokens, queued>>
    BY <1>10 DEF NotifyRead, Continue, accountVars
  <2> HIDE DEF x
  <2> QED BY <2>1, <2>2, OneUnconcerned, Unchanged
<1>11. ASSUME NEW t \in DOMAIN tokens, ResetRead(r, t)
       PROVE  Framed
  <2> DEFINE x == [step |-> "reset", effect |-> "reset", token |-> t]
  <2>1. ~Concern(x)
    BY DEF Concern
  <2>2. requests' = [requests EXCEPT ![r] = x] /\ UNCHANGED <<account, tokens, queued>>
    BY <1>11 DEF ResetRead, Begin, accountVars
  <2> HIDE DEF x
  <2> QED BY <2>1, <2>2, OneUnconcerned, Unchanged
<1>12. ASSUME NEW c \in Clients, RefreshRead(r, c)
       PROVE  Framed
  <2>1. UNCHANGED <<account, tokens, queued>>
    BY <1>12 DEF RefreshRead, accountVars
  <2>2. PICK x : requests' = [requests EXCEPT ![r] = x] /\ ~Concern(x)
    <3> DEFINE s == clients[c].refresh
               reuse == [step |-> "revoking", effect |-> "reuse", client |-> c,
                         scope |-> {a \in Active : sessions[a].family = sessions[s].family}]
               refresh == [step |-> "refresh", client |-> c, session |-> s, since |-> signOuts]
    <3>1. requests' = [requests EXCEPT ![r] = IF sessions[s].revoked THEN reuse ELSE refresh]
      BY <1>12 DEF RefreshRead, Begin
    <3>2. ~Concern(reuse) /\ ~Concern(refresh)
      BY DEF Concern
    <3> HIDE DEF reuse, refresh
    <3> QED BY <3>1, <3>2
  <2> QED BY <2>1, <2>2, OneUnconcerned, Unchanged
<1>13. ASSUME NEW c \in Clients, NEW correct \in BOOLEAN, LoginRead(r, c, correct)
       PROVE  Framed
  <2>1. UNCHANGED <<account, tokens, queued>>
    BY <1>13 DEF LoginRead, accountVars
  <2>2. PICK x : requests' = [requests EXCEPT ![r] = x] /\ ~Concern(x)
    <3> DEFINE verified == [step |-> "verified", client |-> c, since |-> signOuts]
               mistaken == [step |-> "mistaken", client |-> c, failures |-> account.failures]
    <3>1. \/ requests' = [requests EXCEPT ![r] = verified]
          \/ requests' = [requests EXCEPT ![r] = mistaken]
      BY <1>13 DEF LoginRead, Begin
    <3>2. ~Concern(verified) /\ ~Concern(mistaken)
      BY DEF Concern
    <3> HIDE DEF verified, mistaken
    <3> QED BY <3>1, <3>2
  <2> QED BY <2>1, <2>2, OneUnconcerned, Unchanged
<1> QED BY <1>2, <1>3, <1>4, <1>5, <1>6, <1>7, <1>8, <1>9, <1>10, <1>11, <1>12, <1>13 DEF Aside

LEMMA SameRequests == UNCHANGED requests => Unconcerned
  BY DEF Unconcerned

\* Time, mail, sign-outs, exports and changes of the game leave the status alone.
LEMMA TimeFramed ==
  ASSUME IInv, LeavingInv,
         \/ Lapse \/ CompleteExport
         \/ \E t \in DOMAIN tokens : SendAuthEmail(t)
         \/ \E c \in Clients : Logout(c)
         \/ GameMoves
         \/ UNCHANGED vars
  PROVE  Framed
<1>1. UNCHANGED <<account, requests>> /\ queued' \subseteq queued
  BY GameMovesApart
     DEF Lapse, CompleteExport, SendAuthEmail, Logout, accountVars, vars, sessionVars
<1>2. Unconcerned
  BY <1>1, SameRequests
<1>3. TokensAge
  <2>1. CASE UNCHANGED tokens
    BY <2>1 DEF TokensAge, LeavingInv
  <2>2. CASE Lapse
    <3>1. CASE UNCHANGED tokens
      BY <2>1, <3>1
    <3>2. CASE \E t \in DOMAIN tokens : tokens' = [tokens EXCEPT ![t].state = "lapsed"]
      <4> DEFINE state == "lapsed"
      <4>1. PICK t \in DOMAIN tokens : tokens' = [tokens EXCEPT ![t].state = state]
        BY <3>2
      <4>2. state \in {"sent", "used", "lapsed"} /\ state # "sent"
        OBVIOUS
      <4> HIDE DEF state
      <4> QED BY <4>1, <4>2, TokenMarked
    <3> QED BY <2>2, <3>1, <3>2 DEF Lapse
  <2>3. ASSUME NEW t \in DOMAIN tokens, SendAuthEmail(t)
        PROVE  TokensAge
    <3> DEFINE state == "sent"
    <3>1. tokens' = [tokens EXCEPT ![t].state = state] /\ tokens[t].state = "queued"
      BY <2>3 DEF SendAuthEmail
    <3>2. state \in {"sent", "used", "lapsed"}
      OBVIOUS
    <3> HIDE DEF state
    <3> QED BY <3>1, <3>2, TokenMarked
  <2> QED BY <2>1, <2>2, <2>3, GameMovesApart
          DEF CompleteExport, Logout, accountVars, vars, sessionVars
<1>4. AccountShape'
  BY <1>1 DEF LeavingInv, AccountShape
<1> QED BY <1>1, <1>2, <1>3, <1>4 DEF Framed

LEMMA ClientStopsFramed ==
  ASSUME IInv, LeavingInv, NEW c \in Clients, ClientStops(c)
  PROVE  Framed
<1> DEFINE awaited(q) == /\ Refreshing(q) \/ requests[q].step \in {"verified", "answer"}
                         /\ requests[q].client = c
<1>1. UNCHANGED <<account, tokens, queued>>
  BY DEF ClientStops, accountVars
<1>2. requests' = [q \in Requests |->
        IF ~awaited(q) THEN requests[q]
        ELSE IF requests[q].step = "answer" THEN Idle
        ELSE [requests[q] EXCEPT !.client = None]]
  BY DEF ClientStops
<1>3. ASSUME NEW q \in Requests, Concern(requests'[q])
      PROVE  requests'[q] = requests[q]
  <2>1. CASE ~awaited(q)
    BY <1>2, <2>1
  <2>2. CASE awaited(q) /\ requests[q].step = "answer"
    <3>1. requests'[q] = Idle
      BY <1>2, <2>2
    <3> QED BY <1>3, <3>1, IdleUnconcerned
  <2>3. CASE awaited(q) /\ requests[q].step # "answer"
    <3> DEFINE x == requests[q]
               y == requests'[q]
    <3>1. y = [x EXCEPT !.client = None]
      BY <1>2, <2>3
    <3>2. \/ x.step \in {"refresh", "rotating", "verified"}
          \/ x.step = "revoking" /\ x.effect = "reuse"
      BY <2>3 DEF Refreshing
    <3>3. RequestInv(x)
      BY DEF IInv
    <3> HIDE DEF x, y
    <3>4. y.step = x.step /\ (x.step = "revoking" => y.effect = "reuse")
      BY <3>1, <3>2, <3>3, Unawaited
    <3>5. ~Concern(y)
      BY <3>2, <3>4 DEF Concern
    <3> QED BY <1>3, <3>5 DEF y
  <2> QED BY <2>1, <2>2, <2>3
<1> QED BY <1>1, <1>3, Unchanged DEF Unconcerned
-----------------------------------------------------------------------------
\* Steps that issue a token, verify the address, or take the user out.
Final ==
  account.status \in {"DELETION_REQUESTED", "DEACTIVATED"} /\ account'.status = "ACTIVE"
    => \E r \in Requests : requests[r].step = "verify" /\ requests[r].found = "PENDING_VERIFICATION"

LEMMA Issued ==
  ASSUME tokens \in Seq(Token), NEW kind \in {"verification", "reset"}, Issue(kind)
  PROVE  /\ tokens' \in Seq(Token) /\ DOMAIN tokens' = DOMAIN tokens \cup {Len(tokens) + 1}
         /\ Len(tokens) + 1 \notin DOMAIN tokens
         /\ \A t \in DOMAIN tokens : tokens'[t] = tokens[t]
         /\ tokens'[Len(tokens) + 1] = [kind |-> kind, state |-> "queued"]
<1> DEFINE token == [kind |-> kind, state |-> "queued"]
<1>1. token \in Token
  BY DEF Token
<1>2. tokens' = Append(tokens, token)
  BY DEF Issue
<1> HIDE DEF token
<1>3. /\ tokens' \in Seq(Token) /\ DOMAIN tokens' = DOMAIN tokens \cup {Len(tokens) + 1}
      /\ Len(tokens) + 1 \notin DOMAIN tokens
      /\ \A t \in DOMAIN tokens : tokens'[t] = tokens[t]
      /\ tokens'[Len(tokens) + 1] = token
  BY <1>1, <1>2
<1> QED BY <1>3 DEF token

LEMMA RegisterLeaves ==
  ASSUME LeavingInv, Register
  PROVE  LeavingInv' /\ Final
<1>1. account.status = "NONE" /\ UNCHANGED <<queued, requests>>
  BY DEF Register
<1>2. AccountShape' /\ account'.status = "PENDING_VERIFICATION"
  BY DEF Register, LeavingInv, AccountShape
<1> DEFINE kind == "verification"
           new == Len(tokens) + 1
<1>3. kind \in {"verification", "reset"} /\ Issue(kind) /\ tokens \in Seq(Token)
  BY DEF Register, LeavingInv
<1> HIDE DEF kind
<1>4. /\ tokens' \in Seq(Token) /\ DOMAIN tokens' = DOMAIN tokens \cup {new}
      /\ \A t \in DOMAIN tokens : tokens'[t] = tokens[t]
  BY <1>3, Issued
<1> HIDE DEF new
<1>5. \A t \in DOMAIN tokens : tokens[t].kind # "verification"
  BY <1>1 DEF LeavingInv
<1>6. \A t, u \in DOMAIN tokens' :
        tokens'[t].kind = "verification" /\ tokens'[u].kind = "verification" => t = u
  BY <1>4, <1>5
<1>7. "DELETION" \notin queued /\ \A r \in Requests : ~Concern(requests[r])
  BY <1>1, <1>5 DEF LeavingInv, Unverified
<1> QED BY <1>1, <1>2, <1>4, <1>6, <1>7 DEF LeavingInv, Unverified, Final

LEMMA ResetLeaves ==
  ASSUME LeavingInv, RequestPasswordReset
  PROVE  LeavingInv' /\ Final
<1>1. account.status = "ACTIVE" /\ UNCHANGED <<account, queued, requests>>
  BY DEF RequestPasswordReset
<1> DEFINE kind == "reset"
           new == Len(tokens) + 1
<1>2. kind \in {"verification", "reset"} /\ Issue(kind) /\ tokens \in Seq(Token)
  BY DEF RequestPasswordReset, LeavingInv
<1> HIDE DEF kind
<1>3. /\ tokens' \in Seq(Token) /\ DOMAIN tokens' = DOMAIN tokens \cup {new}
      /\ \A t \in DOMAIN tokens : tokens'[t] = tokens[t]
      /\ tokens'[new] = [kind |-> kind, state |-> "queued"]
  BY <1>2, Issued
<1> HIDE DEF new
<1>4. \A t \in DOMAIN tokens' :
        tokens'[t].kind = "verification" => t \in DOMAIN tokens /\ tokens'[t] = tokens[t]
  BY <1>3 DEF kind
<1>5. \A t, u \in DOMAIN tokens' :
        /\ tokens'[t].kind = "verification" /\ tokens'[u].kind = "verification" => t = u
        /\ ~Live(tokens'[t])
  BY <1>1, <1>4 DEF LeavingInv, Live
<1>6. \A q \in Requests : Concern(requests'[q]) => requests'[q] = requests[q]
  BY <1>1
<1>7. AccountShape' /\ account'.status = "ACTIVE"
  BY <1>1 DEF LeavingInv, AccountShape
<1> QED BY <1>1, <1>3, <1>5, <1>6, <1>7 DEF LeavingInv, Unverified, Final

\* A request that begins, if it may change the status, has found it fit.
LEMMA BeginLeaves ==
  ASSUME IInv, LeavingInv, NEW r \in Requests, NEW x,
         requests' = [requests EXCEPT ![r] = x], UNCHANGED <<account, tokens, queued>>,
         \/ x.step = "verify" /\ x.found = "PENDING_VERIFICATION" /\ x.token \in DOMAIN tokens
                              /\ tokens[x.token].kind = "verification"
         \/ x.step # "verify" /\ ~Unverified
  PROVE  LeavingInv' /\ Final
<1>1. \A q \in Requests : requests'[q] = IF q = r THEN x ELSE requests[q]
  BY DEF IInv, TypeInv
<1>2. \A q \in Requests : Concern(requests'[q]) =>
        IF requests'[q].step = "verify"
        THEN /\ requests'[q].found = "PENDING_VERIFICATION"
             /\ requests'[q].token \in DOMAIN tokens'
             /\ tokens'[requests'[q].token].kind = "verification"
        ELSE ~Unverified'
  BY <1>1 DEF LeavingInv, Unverified
<1> QED BY <1>2 DEF LeavingInv, Unverified, Final, AccountShape

LEMMA ArrivalsLeave ==
  ASSUME IInv, LeavingInv, NEW r \in Requests,
         \/ \E t \in DOMAIN tokens : VerifyRead(r, t)
         \/ \E c \in Clients : \E effect : Authorize(r, c, effect)
         \/ DeletionStarts(r)
  PROVE  LeavingInv' /\ Final
<1>1. ASSUME NEW t \in DOMAIN tokens, VerifyRead(r, t)
      PROVE  LeavingInv' /\ Final
  <2> DEFINE x == [step |-> "verify", token |-> t, found |-> account.status]
  <2>1. requests' = [requests EXCEPT ![r] = x] /\ UNCHANGED <<account, tokens, queued>>
    BY <1>1 DEF VerifyRead, Begin, accountVars
  <2>2. tokens[t].kind = "verification" /\ account.status = "PENDING_VERIFICATION"
    BY <1>1 DEF VerifyRead, Usable, LeavingInv, Live
  <2>3. /\ x.step = "verify" /\ x.found = "PENDING_VERIFICATION" /\ x.token \in DOMAIN tokens
        /\ tokens[x.token].kind = "verification"
    BY <2>2
  <2> HIDE DEF x
  <2> QED BY <2>1, <2>3, BeginLeaves
<1>2. ASSUME NEW c \in Clients, NEW effect, Authorize(r, c, effect)
      PROVE  LeavingInv' /\ Final
  <2> DEFINE x == [step |-> "authorized", effect |-> effect, early |-> ~account.deleted]
  <2>1. requests' = [requests EXCEPT ![r] = x] /\ UNCHANGED <<account, tokens, queued>>
    BY <1>2 DEF Authorize, Begin, accountVars
  <2>2. x.step # "verify" /\ ~Unverified
    BY <1>2 DEF Authorize, CanAct, Unverified
  <2> HIDE DEF x
  <2> QED BY <2>1, <2>2, BeginLeaves
<1>3. CASE DeletionStarts(r)
  <2> DEFINE x == [step |-> "revoking", effect |-> "DELETION", client |-> None, token |-> None,
                   scope |-> EverySession, known |-> Len(sessions)]
  <2>1. requests' = [requests EXCEPT ![r] = x] /\ UNCHANGED <<account, tokens, queued>>
    BY <1>3 DEF DeletionStarts, Continue, accountVars
  <2>2. x.step # "verify" /\ ~Unverified
    BY <1>3 DEF DeletionStarts, LeavingInv
  <2> HIDE DEF x
  <2> QED BY <2>1, <2>2, BeginLeaves
<1> QED BY <1>1, <1>2, <1>3

LEMMA VerifyLeaves ==
  ASSUME IInv, LeavingInv, NEW r \in Requests, VerifyCommit(r)
  PROVE  LeavingInv' /\ Final
<1> DEFINE t == requests[r].token
           state == "used"
<1>1. /\ requests[r].step = "verify" /\ UNCHANGED queued
      /\ requests' = [requests EXCEPT ![r] = Idle]
      /\ tokens' = [tokens EXCEPT ![t].state = state]
  BY DEF VerifyCommit, Continue
<1>2. /\ requests[r].found = "PENDING_VERIFICATION" /\ t \in DOMAIN tokens
      /\ tokens[t].kind = "verification" /\ tokens[t] \in Token
  BY <1>1 DEF LeavingInv, Concern
<1>3. AccountShape' /\ account'.status = "ACTIVE"
  BY DEF VerifyCommit, LeavingInv, AccountShape
<1>4. tokens'[t].state = "used"
  BY <1>1, <1>2 DEF LeavingInv, Token
<1>5. state \in {"sent", "used", "lapsed"} /\ state # "sent"
  OBVIOUS
<1> HIDE DEF t, state
<1>6. TokensAge
  BY <1>1, <1>5, TokenMarked
<1>7. \A u \in DOMAIN tokens : ~Live(tokens'[u])
  BY <1>2, <1>4, <1>6 DEF TokensAge, LeavingInv, Live
<1>8. Unconcerned
  BY <1>1, IdleUnconcerned, OneUnconcerned
<1> QED BY <1>1, <1>2, <1>3, <1>6, <1>7, <1>8
        DEF LeavingInv, TokensAge, Unconcerned, Unverified, Final

LEMMA DeletionLeaves ==
  ASSUME IInv, LeavingInv, NEW r \in Requests, RequestDataAction(r) \/ CompleteDeletion(r)
  PROVE  LeavingInv' /\ Final
<1>1. ~Unverified
  BY DEF RequestDataAction, CompleteDeletion, LeavingInv, Concern
<1>2. requests' = [requests EXCEPT ![r] = Idle] /\ UNCHANGED tokens
  BY DEF RequestDataAction, CompleteDeletion, Continue
<1>3. Unconcerned
  BY <1>2, IdleUnconcerned, OneUnconcerned
<1>4. /\ AccountShape'
      /\ account'.status = account.status \/ account'.status \in {"DELETION_REQUESTED", "DEACTIVATED"}
  BY DEF RequestDataAction, CompleteDeletion, LeavingInv, AccountShape
<1> QED BY <1>1, <1>2, <1>3, <1>4 DEF LeavingInv, Unverified, Unconcerned, Final

LEMMA LeavingStep == IInv /\ LeavingInv /\ [Next]_vars => LeavingInv' /\ Final
<1> SUFFICES ASSUME IInv, LeavingInv, [Next]_vars
             PROVE  LeavingInv' /\ Final
  OBVIOUS
<1>1. ASSUME Framed
      PROVE  LeavingInv' /\ Final
  BY <1>1, FramedKeeps DEF Framed, Final
<1>2. CASE UNCHANGED vars
  BY <1>1, <1>2, TimeFramed
<1>3. CASE Progress
  <2>1. ASSUME NEW r \in Requests, Handling(r) \/ DeletionStarts(r)
        PROVE  LeavingInv' /\ Final
    BY <1>1, <2>1, AsideFramed, VerifyLeaves, DeletionLeaves, ArrivalsLeave DEF Handling, Aside
  <2>2. ASSUME NEW r \in Requests, SavePersonal(r) \/ CompleteDeletion(r) \/ NotifyCommit(r, FALSE)
                                   \/ \E message \in messages : NotifyRead(r, message)
        PROVE  LeavingInv' /\ Final
    BY <1>1, <2>2, AsideFramed, DeletionLeaves DEF Aside
  <2>3. CASE \/ CompleteExport \/ \E t \in DOMAIN tokens : SendAuthEmail(t)
             \/ \E q \in rescheduling : RescheduleCommit(q)
    BY <1>1, <2>3, TimeFramed DEF GameMoves
  <2> QED BY <1>3, <2>1, <2>2, <2>3 DEF Progress
<1>4. CASE Events
  <2>1. ASSUME NEW r \in Requests, Arrivals(r)
        PROVE  LeavingInv' /\ Final
    <3>1. ASSUME NEW t \in DOMAIN tokens, VerifyRead(r, t) \/ ResetRead(r, t)
          PROVE  LeavingInv' /\ Final
      BY <1>1, <3>1, AsideFramed, ArrivalsLeave DEF Aside
    <3>2. ASSUME NEW c \in Clients, \/ \E correct \in BOOLEAN : LoginRead(r, c, correct)
                                    \/ RefreshRead(r, c)
                                    \/ \E effect : Authorize(r, c, effect)
          PROVE  LeavingInv' /\ Final
      BY <1>1, <3>2, AsideFramed, ArrivalsLeave DEF Aside
    <3>3. CASE AnswerLost(r) \/ Fail(r)
      BY <1>1, <3>3, AsideFramed DEF Aside
    <3> QED BY <2>1, <3>1, <3>2, <3>3 DEF Arrivals
  <2>2. CASE Register \/ RequestPasswordReset
    BY <2>2, RegisterLeaves, ResetLeaves
  <2>3. CASE Lapse
    BY <1>1, <2>3, TimeFramed
  <2>4. ASSUME NEW c \in Clients, ClientStops(c) \/ Logout(c)
        PROVE  LeavingInv' /\ Final
    BY <1>1, <2>4, ClientStopsFramed, TimeFramed
  <2>5. CASE ChangeGame \/ RescheduleRead
    BY <1>1, <2>5, TimeFramed DEF GameMoves
  <2>6. ASSUME NEW r \in Requests, NotifyCommit(r, TRUE)
        PROVE  LeavingInv' /\ Final
    BY <1>1, <2>6, AsideFramed DEF Aside
  <2> QED BY <1>4, <2>1, <2>2, <2>3, <2>4, <2>5, <2>6 DEF Events
<1> QED BY <1>2, <1>3, <1>4 DEF Next

LEMMA LeavingInitial == Init => LeavingInv
<1> SUFFICES ASSUME Init
             PROVE  LeavingInv
  OBVIOUS
<1>1. /\ tokens = <<>> /\ queued = {} /\ AccountShape
      /\ requests = [r \in Requests |-> Idle]
  BY DEF Init, SessionsInit, AccountShape
<1>2. tokens \in Seq(Token) /\ DOMAIN tokens = {}
  BY <1>1
<1> QED BY <1>1, <1>2, IdleUnconcerned DEF LeavingInv

\* Who asks for deletion is out for good, however verifications, resets and the job
\* interleave: verifyEmail activates the account without looking at its status
\* (auth.service.ts:114), and only one that had found it pending can do so late.
THEOREM LeftForGood == Spec => LeavingIsFinal
<1>1. IInv /\ LeavingInv /\ [Next]_vars => IInv' /\ LeavingInv'
  BY Inductive, LeavingStep
<1>2. Init => IInv /\ LeavingInv
  BY Initial, LeavingInitial
<1>3. IInv /\ LeavingInv /\ [Next]_vars =>
        [account.status \in {"DELETION_REQUESTED", "DEACTIVATED"} /\ account'.status = "ACTIVE"
           => \E r \in Requests :
                requests[r].step = "verify" /\ requests[r].found = "PENDING_VERIFICATION"]_vars
  BY LeavingStep DEF Final
<1> QED BY <1>1, <1>2, <1>3, PTL DEF Spec, LeavingIsFinal
-----------------------------------------------------------------------------
\* What the rows of the account, its sessions, requests and notices are bounded by.
Messages(game) == [type : MessageTypes, change : 1..game.changes]

\* While no version is used twice, the version of a notice counts the changes.
Notices(game) ==
  {d \in [type : MessageTypes, version : 0..game.changes, change : 1..game.changes] :
     ~game.rewound => d.version = d.change}

\* What there is to read of the game's past.
Past == [changes |-> changes, rewound |-> rewound]

Later(game, next) ==
  /\ game.changes \in Nat /\ next.changes \in Nat /\ game.changes <= next.changes
  /\ game.rewound => next.rewound

\* A request that carries a session, to be rotated or to be answered with.
Rotates(x) == x.step \in {"refresh", "rotating"}
Carries(x) == Rotates(x) \/ x.step = "answer"
Reuses(x)  == x.step = "revoking" /\ x.effect = "reuse"

\* A request has read what there was when it began.
Within(x, game, outs, rows, tries) ==
  /\ x.step = "notify" =>
       /\ x.message \in Messages(game) /\ x.version \in 0..game.changes
       /\ x.change \in x.message.change..game.changes
       /\ ~game.rewound => x.version = x.change
  /\ x.step = "authorized" => x.early
  /\ Rotates(x) \/ x.step = "verified" => x.since <= outs
  /\ Carries(x) => x.session \in 1..rows
  /\ Reuses(x) => x.scope \subseteq 1..rows
  /\ x.step = "mistaken" => x.failures \in Nat /\ x.failures < tries

AccountBounds ==
  /\ acts \in 0..MaxActs /\ queued \subseteq {"EXPORT", "DELETION"}
  /\ account \in [status : {"NONE", "PENDING_VERIFICATION", "ACTIVE", "DELETION_REQUESTED",
                            "DEACTIVATED"},
                  password : Nat, failures : 0..acts, locked : BOOLEAN, deleted : BOOLEAN]

RowBounds ==
  \A s \in DOMAIN sessions :
    /\ sessions[s].family >= 1 /\ sessions[s].since <= sessions[s].born
    /\ sessions[s].born <= signOuts /\ sessions[s].late <= signOuts

ClientBounds ==
  \A c \in Clients : clients[c].refresh <= Len(sessions) /\ clients[c].access <= Len(sessions)

RequestBounds ==
  \A r \in Requests : Within(requests[r], Past, signOuts, Len(sessions), acts)

FanBounds ==
  /\ personal \subseteq Saved
  /\ changes \in Nat /\ gameVersion \in 0..changes /\ rewound \in BOOLEAN
  /\ \A q \in rescheduling : q.read \in 0..changes
  /\ ~rewound => gameVersion = changes
  /\ messages \subseteq Messages(Past) /\ deliveries \subseteq Notices(Past)
  /\ NothingPersonalRemains /\ EveryChangeNotified

\* What makes TypeOK, NothingPersonalRemains and EveryChangeNotified inductive.
RecordsInv == AccountBounds /\ RowBounds /\ ClientBounds /\ RequestBounds /\ FanBounds

LEMMA WithinLater ==
  ASSUME NEW x, NEW game, NEW outs \in Nat, NEW rows \in Nat, NEW tries \in Nat,
         NEW game2, NEW outs2 \in Nat, NEW rows2 \in Nat, NEW tries2 \in Nat,
         Later(game, game2), outs <= outs2, rows <= rows2, tries <= tries2,
         RequestInv(x), Within(x, game, outs, rows, tries)
  PROVE  Within(x, game2, outs2, rows2, tries2)
<1>1. x.step = "notify" =>
        /\ x.message \in Messages(game2) /\ x.version \in 0..game2.changes
        /\ x.change \in x.message.change..game2.changes
        /\ ~game2.rewound => x.version = x.change
  BY DEF Within, Messages, Later
<1>2. (Rotates(x) => x.since <= outs2) /\ (x.step = "verified" => x.since <= outs2)
  BY DEF Within, Rotates, RequestInv, Shape
<1>3. (Carries(x) => x.session \in 1..rows2) /\ (Reuses(x) => x.scope \subseteq 1..rows2)
  BY DEF Within
<1>4. x.step = "mistaken" => x.failures \in Nat /\ x.failures < tries2
  BY DEF Within
<1> QED BY <1>1, <1>2, <1>3, <1>4 DEF Within

\* Requests that have read nothing that could be out of bounds.
Plain(x) ==
  /\ x.step \notin {"notify", "authorized", "refresh", "rotating", "verified", "answer",
                    "mistaken"}
  /\ ~Reuses(x)

LEMMA PlainWithin ==
  ASSUME NEW x, Plain(x), NEW game, NEW outs, NEW rows, NEW tries
  PROVE  Within(x, game, outs, rows, tries)
  BY DEF Plain, Within, Rotates, Carries

LEMMA IdlePlain == Plain(Idle)
  BY DEF Plain, Idle, Reuses

\* Counters grow.
Grown ==
  /\ Later(Past, Past')
  /\ signOuts' \in Nat /\ signOuts <= signOuts'
  /\ Len(sessions') \in Nat /\ Len(sessions) <= Len(sessions')
  /\ acts' \in Nat /\ acts <= acts'

LEMMA Counters ==
  ASSUME IInv, RecordsInv
  PROVE  /\ changes \in Nat /\ (UNCHANGED gameVars => Later(Past, Past'))
         /\ signOuts \in Nat /\ Len(sessions) \in Nat /\ acts \in Nat /\ acts <= MaxActs
<1>1. signOuts \in Nat /\ Len(sessions) \in Nat
  BY Rows DEF IInv, TypeInv
<1>2. changes \in Nat /\ (UNCHANGED gameVars => Later(Past, Past'))
  BY DEF RecordsInv, FanBounds, gameVars, Past, Later
<1> QED BY <1>1, <1>2, SessionsAssumption DEF RecordsInv, AccountBounds

LEMMA RequestsLater ==
  ASSUME IInv, RecordsInv, Grown, UNCHANGED requests
  PROVE  RequestBounds'
<1> SUFFICES ASSUME NEW q \in Requests
             PROVE  Within(requests'[q], Past', signOuts', Len(sessions'), acts')
  BY DEF RequestBounds
<1>1. /\ RequestInv(requests[q])
      /\ Within(requests[q], Past, signOuts, Len(sessions), acts)
  BY DEF IInv, RecordsInv, RequestBounds
<1> QED BY <1>1, Counters, WithinLater DEF Grown

LEMMA OneBounded ==
  ASSUME IInv, RecordsInv, Grown, NEW r \in Requests, NEW x,
         requests' = [requests EXCEPT ![r] = x],
         Within(x, Past', signOuts', Len(sessions'), acts')
  PROVE  RequestBounds'
<1> SUFFICES ASSUME NEW q \in Requests
             PROVE  Within(requests'[q], Past', signOuts', Len(sessions'), acts')
  BY DEF RequestBounds
<1>1. CASE q = r
  BY <1>1 DEF IInv, TypeInv
<1>2. CASE q # r
  <2>1. /\ RequestInv(requests[q]) /\ requests'[q] = requests[q]
        /\ Within(requests[q], Past, signOuts, Len(sessions), acts)
    BY <1>2 DEF IInv, TypeInv, RecordsInv, RequestBounds
  <2> QED BY <2>1, Counters, WithinLater DEF Grown
<1> QED BY <1>1, <1>2

LEMMA FansApart ==
  ASSUME FanBounds, UNCHANGED fanVars, account'.deleted = account.deleted
  PROVE  FanBounds'
  BY DEF FanBounds, fanVars, gameVars, Past, NothingPersonalRemains, EveryChangeNotified

\* Steps of one request that leave the rows, the clients and the fan alone.
Tries == acts' = acts \/ Act

LEMMA TriesCounted ==
  ASSUME IInv, RecordsInv, Tries
  PROVE  acts' \in 0..MaxActs /\ acts <= acts'
  BY Counters, SessionsAssumption DEF Tries, Act

LEMMA ReadKeeps ==
  ASSUME IInv, RecordsInv, Tries, UNCHANGED <<accountVars, clients, fanVars>>,
         NEW r \in Requests, NEW x, requests' = [requests EXCEPT ![r] = x],
         Within(x, Past, signOuts, Len(sessions), acts')
  PROVE  RecordsInv'
<1>1. UNCHANGED <<account, sessions, signOuts, queued, gameVars>>
  BY DEF accountVars, fanVars
<1>2. acts' \in 0..MaxActs /\ acts <= acts' /\ acts \in Nat
  BY TriesCounted, Counters
<1>3. Grown
  BY <1>1, <1>2, Counters DEF Grown
<1>4. RequestBounds'
  <2>1. Past' = Past /\ signOuts' = signOuts /\ Len(sessions') = Len(sessions)
    BY <1>1 DEF gameVars, Past
  <2> QED BY <1>3, <2>1, OneBounded
<1>5. AccountBounds'
  BY <1>1, <1>2 DEF RecordsInv, AccountBounds
<1>6. RowBounds' /\ ClientBounds'
  BY <1>1 DEF RecordsInv, RowBounds, ClientBounds
<1>7. FanBounds'
  BY <1>1, FansApart DEF RecordsInv
<1> QED BY <1>4, <1>5, <1>6, <1>7 DEF RecordsInv

LEMMA ReadsKeep ==
  ASSUME IInv, RecordsInv, NEW r \in Requests,
         \/ SignOutAll(r) \/ DeletionStarts(r) \/ Rotate(r) \/ Fail(r)
         \/ \E t \in DOMAIN tokens : VerifyRead(r, t) \/ ResetRead(r, t)
         \/ \E c \in Clients : \E effect : Authorize(r, c, effect),
         UNCHANGED fanVars
  PROVE  RecordsInv'
<1> USE DEF Begin, Continue, Tries
<1>1. ASSUME NEW x, Plain(x), requests' = [requests EXCEPT ![r] = x], Tries,
             UNCHANGED <<accountVars, clients>>
      PROVE  RecordsInv'
  BY <1>1, PlainWithin, ReadKeeps
<1>2. CASE SignOutAll(r)
  <2> DEFINE x == [step |-> "revoking", effect |-> requests[r].effect, client |-> None,
                   token |-> IF requests[r].step = "reset" THEN requests[r].token ELSE None,
                   scope |-> EverySession, known |-> Len(sessions)]
  <2>1. Plain(x)
    BY <1>2 DEF SignOutAll, IInv, RequestInv, Shape, Plain, Reuses
  <2>2. requests' = [requests EXCEPT ![r] = x] /\ Tries /\ UNCHANGED <<accountVars, clients>>
    BY <1>2 DEF SignOutAll
  <2> HIDE DEF x
  <2> QED BY <1>1, <2>1, <2>2
<1>3. CASE DeletionStarts(r)
  <2> DEFINE x == [step |-> "revoking", effect |-> "DELETION", client |-> None, token |-> None,
                   scope |-> EverySession, known |-> Len(sessions)]
  <2>1. Plain(x)
    BY DEF Plain, Reuses
  <2>2. requests' = [requests EXCEPT ![r] = x] /\ Tries /\ UNCHANGED <<accountVars, clients>>
    BY <1>3 DEF DeletionStarts
  <2> HIDE DEF x
  <2> QED BY <1>1, <2>1, <2>2
<1>4. CASE Rotate(r)
  <2> DEFINE x == [requests[r] EXCEPT !.step = "rotating"]
  <2>1. /\ requests[r] \in [step : {"refresh", "rotating"}, client : Clients \cup {None},
                            session : Nat, since : Nat]
        /\ Within(requests[r], Past, signOuts, Len(sessions), acts)
        /\ acts' = acts
    BY <1>4 DEF Rotate, IInv, RequestInv, Shape, RecordsInv, RequestBounds
  <2>2. x.step = "rotating" /\ x.since = requests[r].since /\ x.session = requests[r].session
    BY <2>1
  <2>3. requests' = [requests EXCEPT ![r] = x] /\ Tries /\ UNCHANGED <<accountVars, clients>>
    BY <1>4 DEF Rotate
  <2> HIDE DEF x
  <2>4. Within(x, Past, signOuts, Len(sessions), acts')
    BY <2>1, <2>2 DEF Within, Rotates, Carries, Reuses
  <2> QED BY <2>3, <2>4, ReadKeeps
<1>5. CASE Fail(r)
  BY <1>1, <1>5, IdlePlain DEF Fail
<1>6. ASSUME NEW t \in DOMAIN tokens, VerifyRead(r, t)
      PROVE  RecordsInv'
  <2> DEFINE x == [step |-> "verify", token |-> t, found |-> account.status]
  <2>1. Plain(x)
    BY DEF Plain, Reuses
  <2>2. requests' = [requests EXCEPT ![r] = x] /\ Tries /\ UNCHANGED <<accountVars, clients>>
    BY <1>6 DEF VerifyRead
  <2> HIDE DEF x
  <2> QED BY <1>1, <2>1, <2>2
<1>7. ASSUME NEW t \in DOMAIN tokens, ResetRead(r, t)
      PROVE  RecordsInv'
  <2> DEFINE x == [step |-> "reset", effect |-> "reset", token |-> t]
  <2>1. Plain(x)
    BY DEF Plain, Reuses
  <2>2. requests' = [requests EXCEPT ![r] = x] /\ Tries /\ UNCHANGED <<accountVars, clients>>
    BY <1>7 DEF ResetRead
  <2> HIDE DEF x
  <2> QED BY <1>1, <2>1, <2>2
<1>8. ASSUME NEW c \in Clients, NEW effect, Authorize(r, c, effect)
      PROVE  RecordsInv'
  <2> DEFINE x == [step |-> "authorized", effect |-> effect, early |-> ~account.deleted]
  <2>1. x.step = "authorized" /\ x.early
    BY <1>8 DEF Authorize, CanAct
  <2>2. requests' = [requests EXCEPT ![r] = x] /\ Tries /\ UNCHANGED <<accountVars, clients>>
    BY <1>8 DEF Authorize
  <2> HIDE DEF x
  <2>3. Within(x, Past, signOuts, Len(sessions), acts')
    BY <2>1 DEF Within, Rotates, Carries, Reuses
  <2> QED BY <2>2, <2>3, ReadKeeps
<1> QED BY <1>2, <1>3, <1>4, <1>5, <1>6, <1>7, <1>8

LEMMA LoginReadBounded ==
  ASSUME IInv, RecordsInv, NEW r \in Requests, NEW c \in Clients, NEW correct \in BOOLEAN,
         LoginRead(r, c, correct), UNCHANGED fanVars
  PROVE  RecordsInv'
<1>1. acts' = acts + 1 /\ Tries /\ UNCHANGED <<accountVars, clients>>
  BY DEF LoginRead, Begin, Act, Tries
<1>2. CASE correct
  <2> DEFINE x == [step |-> "verified", client |-> c, since |-> signOuts]
  <2>1. requests' = [requests EXCEPT ![r] = x]
    BY <1>2 DEF LoginRead, Begin
  <2>2. Within(x, Past, signOuts, Len(sessions), acts')
    BY Counters DEF Within, Rotates, Carries, Reuses
  <2> HIDE DEF x
  <2> QED BY <1>1, <2>1, <2>2, ReadKeeps
<1>3. CASE ~correct
  <2> DEFINE x == [step |-> "mistaken", client |-> c, failures |-> account.failures]
  <2>1. requests' = [requests EXCEPT ![r] = x]
    BY <1>3 DEF LoginRead, Begin
  <2>2. x.failures \in Nat /\ x.failures < acts' /\ x.step = "mistaken"
    BY <1>1, Counters DEF RecordsInv, AccountBounds
  <2> HIDE DEF x
  <2>3. Within(x, Past, signOuts, Len(sessions), acts')
    BY <2>2 DEF Within, Rotates, Carries, Reuses
  <2> QED BY <1>1, <2>1, <2>3, ReadKeeps
<1> QED BY <1>2, <1>3

LEMMA RefreshReadBounded ==
  ASSUME IInv, RecordsInv, NEW r \in Requests, NEW c \in Clients, RefreshRead(r, c),
         UNCHANGED fanVars
  PROVE  RecordsInv'
<1> DEFINE s == clients[c].refresh
           reuse == [step |-> "revoking", effect |-> "reuse", client |-> c,
                     scope |-> {a \in Active : sessions[a].family = sessions[s].family}]
           refresh == [step |-> "refresh", client |-> c, session |-> s, since |-> signOuts]
<1>1. Tries /\ UNCHANGED <<accountVars, clients>> /\ s # None
  BY Rows DEF RefreshRead, Begin, Tries, IInv, None
<1>2. requests' = [requests EXCEPT ![r] = IF sessions[s].revoked THEN reuse ELSE refresh]
  BY DEF RefreshRead, Begin
<1>3. /\ refresh.step = "refresh" /\ refresh.since = signOuts /\ refresh.session \in 1..Len(sessions)
      /\ reuse.step = "revoking" /\ reuse.effect = "reuse" /\ reuse.scope \subseteq 1..Len(sessions)
  <2>1. s \in 1..Len(sessions)
    BY <1>1, Counters DEF IInv, TypeInv, RecordsInv, ClientBounds, None
  <2>2. Active \subseteq 1..Len(sessions)
    BY Rows DEF IInv, Active
  <2> QED BY <2>1, <2>2
<1> HIDE DEF s, reuse, refresh
<1>4. Within(reuse, Past, signOuts, Len(sessions), acts')
  BY <1>3 DEF Within, Rotates, Carries
<1>5. Within(refresh, Past, signOuts, Len(sessions), acts')
  BY <1>3, Counters DEF Within, Rotates, Carries, Reuses
<1>6. CASE sessions[s].revoked
  BY <1>1, <1>2, <1>4, <1>6, ReadKeeps
<1>7. CASE ~sessions[s].revoked
  BY <1>1, <1>2, <1>5, <1>7, ReadKeeps
<1> QED BY <1>6, <1>7

LEMMA NotifyReadBounded ==
  ASSUME IInv, RecordsInv, NEW r \in Requests, NEW message \in messages, NotifyRead(r, message)
  PROVE  RecordsInv'
<1> DEFINE x == [step |-> "notify", message |-> message, version |-> gameVersion,
                 change |-> changes, follows |-> "favorite" \in personal]
<1>1. /\ requests' = [requests EXCEPT ![r] = x] /\ Tries
      /\ UNCHANGED <<accountVars, clients, fanVars>>
  BY DEF NotifyRead, Continue, Tries
<1>2. message \in Messages(Past)
  BY DEF RecordsInv, FanBounds
<1>3. /\ x.step = "notify" /\ x.message = message /\ x.version = gameVersion
      /\ x.change = changes
  OBVIOUS
<1> HIDE DEF x
<1>4. /\ x.version \in 0..Past.changes /\ x.change \in x.message.change..Past.changes
      /\ ~Past.rewound => x.version = x.change
  BY <1>2, <1>3 DEF RecordsInv, FanBounds, Past, Messages
<1>5. Within(x, Past, signOuts, Len(sessions), acts')
  BY <1>2, <1>3, <1>4 DEF Within, Rotates, Carries, Reuses
<1> QED BY <1>1, <1>5, ReadKeeps

LEMMA RefusedBounded ==
  ASSUME IInv, RecordsInv, NEW c, NEW d \in Clients
  PROVE  Refused(c)[d].refresh <= Len(sessions) /\ Refused(c)[d].access <= Len(sessions)
  BY Counters DEF IInv, TypeInv, RecordsInv, ClientBounds, Refused, None

LEMMA AnswersBounded ==
  ASSUME IInv, RecordsInv, NEW r \in Requests,
         AnswerArrives(r) \/ AnswerLost(r) \/ RefreshFails(r), UNCHANGED fanVars
  PROVE  RecordsInv'
<1>1. /\ requests' = [requests EXCEPT ![r] = Idle] /\ Tries
      /\ UNCHANGED <<account, sessions, signOuts, queued, gameVars>>
  BY DEF AnswerArrives, AnswerLost, RefreshFails, Continue, Tries, accountVars, fanVars
<1>2. acts' \in 0..MaxActs /\ acts <= acts' /\ acts \in Nat
  BY <1>1, TriesCounted, Counters
<1>3. Grown
  BY <1>1, <1>2, Counters DEF Grown
<1>4. RequestBounds'
  BY <1>1, <1>3, OneBounded, IdlePlain, PlainWithin
<1>5. AccountBounds' /\ RowBounds' /\ FanBounds'
  BY <1>1, <1>2, FansApart DEF RecordsInv, AccountBounds, RowBounds
<1>6. ClientBounds'
  <2>1. CASE AnswerArrives(r)
    <3>1. requests[r].step = "answer" /\ requests[r].session <= Len(sessions)
      BY <2>1 DEF AnswerArrives, RecordsInv, RequestBounds, Within, Carries
    <3> QED BY <1>1, <2>1, <3>1 DEF AnswerArrives, RecordsInv, ClientBounds, IInv, TypeInv
  <2>2. CASE UNCHANGED clients \/ clients' = Refused(requests[r].client)
    <3>1. CASE UNCHANGED clients
      BY <1>1, <3>1 DEF RecordsInv, ClientBounds
    <3>2. CASE clients' = Refused(requests[r].client)
      BY <1>1, <3>2, RefusedBounded DEF ClientBounds
    <3> QED BY <2>2, <3>1, <3>2
  <2> QED BY <2>1, <2>2 DEF AnswerLost, RefreshFails
<1> QED BY <1>4, <1>5, <1>6 DEF RecordsInv

LEMMA AccountBounded ==
  ASSUME IInv, RecordsInv, NEW r \in Requests,
         VerifyCommit(r) \/ RecordFailedLogin(r) \/ RequestDataAction(r), UNCHANGED fanVars
  PROVE  RecordsInv'
<1>1. /\ requests' = [requests EXCEPT ![r] = Idle] /\ UNCHANGED acts
      /\ UNCHANGED <<sessions, signOuts, clients, gameVars>>
  BY DEF VerifyCommit, RecordFailedLogin, RequestDataAction, Continue, fanVars
<1>2. Grown
  BY <1>1, Counters DEF Grown
<1>3. RequestBounds'
  BY <1>1, <1>2, OneBounded, IdlePlain, PlainWithin
<1>4. AccountBounds' /\ account'.deleted = account.deleted
  <2>1. CASE VerifyCommit(r) \/ RequestDataAction(r)
    BY <1>1, <2>1 DEF VerifyCommit, RequestDataAction, RecordsInv, AccountBounds
  <2>2. CASE RecordFailedLogin(r)
    <3> DEFINE failures == requests[r].failures + 1
    <3>1. failures \in 0..acts
      BY <2>2, Counters DEF RecordFailedLogin, RecordsInv, RequestBounds, Within
    <3>2. account' = [account EXCEPT !.failures = failures,
                                     !.locked = @ \/ failures >= LockAfter] /\ UNCHANGED queued
      BY <2>2 DEF RecordFailedLogin
    <3> HIDE DEF failures
    <3>3. \A b \in BOOLEAN : (b \/ failures >= LockAfter) \in BOOLEAN
      OBVIOUS
    <3> QED BY <1>1, <3>1, <3>2, <3>3 DEF RecordsInv, AccountBounds
  <2> QED BY <2>1, <2>2
<1>5. RowBounds' /\ ClientBounds'
  BY <1>1 DEF RecordsInv, RowBounds, ClientBounds
<1>6. FanBounds'
  BY <1>4, FansApart DEF RecordsInv
<1> QED BY <1>3, <1>4, <1>5, <1>6 DEF RecordsInv

\* A session is inserted, and its tokens are on their way.
LEMMA AnswerBounded ==
  ASSUME IInv, RecordsInv, Grown, NEW r \in Requests, NEW s \in 1..Len(sessions'), NEW login,
         Answer(r, s, login)
  PROVE  RequestBounds' /\ UNCHANGED acts
<1>1. UNCHANGED acts
  BY DEF Answer, Continue
<1>2. CASE requests[r].client = None
  <2>1. requests' = [requests EXCEPT ![r] = Idle]
    BY <1>2 DEF Answer, Continue
  <2> QED BY <1>1, <2>1, OneBounded, IdlePlain, PlainWithin
<1>3. CASE requests[r].client # None
  <2> DEFINE x == [step |-> "answer", client |-> requests[r].client, session |-> s,
                   login |-> login]
  <2>1. requests' = [requests EXCEPT ![r] = x]
    BY <1>3 DEF Answer, Continue
  <2>2. x.step = "answer" /\ x.session = s
    OBVIOUS
  <2> HIDE DEF x
  <2>3. Within(x, Past', signOuts', Len(sessions'), acts')
    BY <2>2 DEF Within, Rotates, Carries, Reuses
  <2> QED BY <1>1, <2>1, <2>3, OneBounded
<1> QED BY <1>2, <1>3

\* What the row of a new session is like.
LEMMA InsertBounded ==
  ASSUME IInv, RecordsInv, NEW r \in Requests, NEW old, NEW new, NEW login,
         old \in Seq(Session), new \in Session, sessions' = Append(old, new),
         Len(old) = Len(sessions),
         \A s \in DOMAIN sessions :
           /\ old[s].family = sessions[s].family /\ old[s].born = sessions[s].born
           /\ old[s].late = sessions[s].late /\ old[s].since = sessions[s].since,
         new.family >= 1, new.since <= new.born, new.born = signOuts, new.late = 0,
         Answer(r, Len(sessions) + 1, login),
         UNCHANGED <<signOuts, clients, queued, fanVars>>, account'.deleted = account.deleted,
         account' \in [status : {account.status}, password : {account.password},
                       failures : {0, account.failures}, locked : BOOLEAN,
                       deleted : {account.deleted}]
  PROVE  RecordsInv'
<1> DEFINE n == Len(sessions)
<1>1. /\ n \in Nat /\ DOMAIN sessions = 1..n /\ signOuts \in Nat /\ Len(sessions') = n + 1
      /\ DOMAIN sessions' = 1..(n + 1)
      /\ sessions'[n + 1] = new /\ \A s \in 1..n : sessions'[s] = old[s]
  BY Rows, AppendProperties, LenProperties DEF IInv, TypeInv
<1> HIDE DEF n
<1>2. UNCHANGED acts /\ UNCHANGED gameVars
  BY DEF Answer, Continue, fanVars
<1>3. Grown
  BY <1>1, <1>2, Counters DEF Grown, n
<1>4. RequestBounds'
  BY <1>1, <1>3, AnswerBounded DEF n
<1>5. AccountBounds'
  BY <1>2, Counters DEF RecordsInv, AccountBounds
<1>6. RowBounds'
  BY <1>1 DEF RecordsInv, RowBounds
<1>7. ClientBounds'
  BY <1>1, Counters DEF n, RecordsInv, ClientBounds, IInv, TypeInv
<1>8. FanBounds'
  BY FansApart DEF RecordsInv
<1> QED BY <1>4, <1>5, <1>6, <1>7, <1>8 DEF RecordsInv

LEMMA CreateSessionBounded ==
  ASSUME IInv, RecordsInv, NEW r \in Requests, CreateSession(r), UNCHANGED fanVars
  PROVE  RecordsInv'
<1> DEFINE n == Len(sessions)
           new == [family |-> n + 1, revoked |-> FALSE, lapsed |-> FALSE,
                   since |-> requests[r].since, born |-> signOuts, late |-> 0]
<1>1. /\ sessions' = Append(sessions, new) /\ UNCHANGED <<signOuts, clients, queued>>
      /\ Answer(r, Len(sessions) + 1, TRUE)
  BY DEF CreateSession, NewSession
<1>2. n \in Nat /\ sessions \in Seq(Session) /\ signOuts \in Nat
  BY Rows DEF IInv, TypeInv
<1>3. requests[r].since \in Nat /\ requests[r].since <= signOuts
  BY DEF CreateSession, IInv, RequestInv, Shape, RecordsInv, RequestBounds, Within
<1>4. /\ new \in Session /\ new.family >= 1 /\ new.since <= new.born /\ new.born = signOuts
      /\ new.late = 0
  BY <1>2, <1>3 DEF Session
<1>5. /\ account'.deleted = account.deleted
      /\ account' \in [status : {account.status}, password : {account.password},
                       failures : {0, account.failures}, locked : BOOLEAN,
                       deleted : {account.deleted}]
  BY DEF CreateSession, RecordsInv, AccountBounds
<1> HIDE DEF new
<1> QED BY <1>1, <1>2, <1>4, <1>5, InsertBounded

LEMMA RotateCommitBounded ==
  ASSUME IInv, RecordsInv, NEW r \in Requests, RotateCommit(r), UNCHANGED fanVars
  PROVE  RecordsInv'
<1> DEFINE n == Len(sessions)
           s == requests[r].session
           old == [sessions EXCEPT ![s].revoked = TRUE]
           new == [sessions[s] EXCEPT !.since = requests[r].since, !.born = signOuts,
                                      !.late = 0, !.lapsed = FALSE, !.revoked = FALSE]
<1>1. /\ requests[r].step = "rotating" /\ sessions' = Append(old, new)
      /\ Answer(r, Len(sessions) + 1, FALSE) /\ UNCHANGED <<account, signOuts, clients, queued>>
  BY DEF RotateCommit
<1>2. n \in Nat /\ sessions \in Seq(Session) /\ DOMAIN sessions = 1..n /\ signOuts \in Nat
  BY Rows DEF IInv, TypeInv
<1>3. /\ s \in 1..n /\ sessions[s] \in Session
      /\ requests[r].since \in Nat /\ requests[r].since <= signOuts
  <2>1. s \in Active /\ requests[r].since \in Nat
    BY <1>1 DEF IInv, RequestInv, Shape
  <2>2. requests[r].since <= signOuts
    BY <1>1 DEF RecordsInv, RequestBounds, Within, Rotates
  <2> QED BY <1>2, <2>1, <2>2, Rows DEF IInv, Active
<1>4. /\ new \in Session /\ new.family >= 1 /\ new.since <= new.born /\ new.born = signOuts
      /\ new.late = 0
  BY <1>2, <1>3 DEF Session, RecordsInv, RowBounds
<1>5. /\ old \in Seq(Session) /\ Len(old) = n
      /\ \A u \in DOMAIN sessions :
           /\ old[u].family = sessions[u].family /\ old[u].born = sessions[u].born
           /\ old[u].late = sessions[u].late /\ old[u].since = sessions[u].since
  <2>1. [sessions[s] EXCEPT !.revoked = TRUE] \in Session
    BY <1>3 DEF Session
  <2>2. old \in [1..n -> Session] /\ \A u \in 1..n : old[u] = IF u = s
            THEN [sessions[s] EXCEPT !.revoked = TRUE] ELSE sessions[u]
    BY <1>2, <1>3, <2>1, Rows DEF IInv
  <2>3. old \in Seq(Session) /\ Len(old) = n
    BY <1>2, <2>2
  <2> QED BY <1>2, <1>3, <2>2, <2>3 DEF Session
<1>6. /\ account'.deleted = account.deleted
      /\ account' \in [status : {account.status}, password : {account.password},
                       failures : {0, account.failures}, locked : BOOLEAN,
                       deleted : {account.deleted}]
  BY <1>1 DEF RecordsInv, AccountBounds
<1> HIDE DEF old, new
<1> QED BY <1>1, <1>4, <1>5, <1>6, InsertBounded

\* Sessions are revoked, one by one or by a statement.
LEMMA RevokedBounded ==
  ASSUME IInv, IInv', RecordsInv, DOMAIN sessions' = DOMAIN sessions,
         signOuts' \in {signOuts, signOuts + 1},
         \A s \in DOMAIN sessions :
           /\ sessions'[s].family = sessions[s].family /\ sessions'[s].born = sessions[s].born
           /\ sessions'[s].since = sessions[s].since
           /\ sessions'[s].late \in {sessions[s].late, signOuts'}
  PROVE  /\ RowBounds' /\ Len(sessions') = Len(sessions)
         /\ UNCHANGED <<acts, gameVars>> => Grown
<1>1. /\ signOuts \in Nat /\ \A s \in DOMAIN sessions : sessions[s] \in Session
  BY Rows DEF IInv, TypeInv
<1>2. RowBounds'
  BY <1>1 DEF RecordsInv, RowBounds, Session
<1>3. Len(sessions') = Len(sessions)
  <2>1. sessions \in Seq(Session) /\ sessions' \in Seq(Session)
    BY DEF IInv, TypeInv
  <2>2. Len(sessions) \in Nat /\ Len(sessions') \in Nat
        /\ 1..Len(sessions) = 1..Len(sessions')
    BY <2>1, LenProperties
  <2> QED BY <2>2
<1> QED BY <1>1, <1>2, <1>3, Counters DEF Grown

LEMMA ReuseBounded ==
  ASSUME IInv, IInv', RecordsInv, NEW r \in Requests, ReuseCommit(r), UNCHANGED fanVars
  PROVE  RecordsInv'
<1> DEFINE scope == requests[r].scope
<1>1. /\ sessions' = [s \in DOMAIN sessions |->
                       [sessions[s] EXCEPT !.revoked = @ \/ s \in scope]]
      /\ clients' = Refused(requests[r].client)
      /\ requests' = [requests EXCEPT ![r] = Idle]
      /\ UNCHANGED <<account, queued, signOuts, acts, gameVars>>
  BY DEF ReuseCommit, Continue, fanVars
<1> HIDE DEF scope
<1>2. \A s \in DOMAIN sessions :
        /\ sessions'[s].family = sessions[s].family /\ sessions'[s].born = sessions[s].born
        /\ sessions'[s].since = sessions[s].since /\ sessions'[s].late = sessions[s].late
  BY <1>1, Rows DEF IInv, Session
<1>3. RowBounds' /\ Len(sessions') = Len(sessions) /\ Grown
  BY <1>1, <1>2, RevokedBounded
<1>4. RequestBounds'
  BY <1>1, <1>3, OneBounded, IdlePlain, PlainWithin
<1>5. AccountBounds' /\ FanBounds'
  BY <1>1, FansApart DEF RecordsInv, AccountBounds
<1>6. ClientBounds'
  BY <1>1, <1>3, RefusedBounded DEF ClientBounds
<1> QED BY <1>3, <1>4, <1>5, <1>6 DEF RecordsInv

LEMMA RevokeBounded ==
  ASSUME IInv, IInv', RecordsInv, NEW r \in Requests,
         CompleteDeletion(r) \/ (RevokeCommit(r) /\ UNCHANGED fanVars)
  PROVE  RecordsInv'
<1>1. /\ sessions' = Revoked(requests[r]) /\ signOuts' = signOuts + 1
      /\ requests' = [requests EXCEPT ![r] = Idle]
      /\ UNCHANGED <<acts, clients, gameVars, messages, deliveries, told, overtaken>>
      /\ queued' \subseteq queued
  BY DEF RevokeCommit, CompleteDeletion, Continue, fanVars
<1>2. \A s \in DOMAIN sessions :
        /\ sessions'[s].family = sessions[s].family /\ sessions'[s].born = sessions[s].born
        /\ sessions'[s].since = sessions[s].since
        /\ sessions'[s].late \in {sessions[s].late, signOuts'}
  <2> DEFINE known == requests[r].known
             scope == requests[r].scope
  <2>1. sessions' = [s \in DOMAIN sessions |->
          [sessions[s] EXCEPT !.revoked = @ \/ s \in scope,
                              !.late = IF s > known THEN signOuts' ELSE @]]
    BY <1>1 DEF Revoked
  <2> HIDE DEF known, scope
  <2> QED BY <2>1, Rows DEF IInv, Session
<1>3. DOMAIN sessions' = DOMAIN sessions
  BY <1>1 DEF Revoked
<1>4. RowBounds' /\ Len(sessions') = Len(sessions) /\ Grown
  BY <1>1, <1>2, <1>3, RevokedBounded
<1>5. RequestBounds'
  BY <1>1, <1>4, OneBounded, IdlePlain, PlainWithin
<1>6. ClientBounds'
  BY <1>1, <1>4 DEF RecordsInv, ClientBounds
<1>7. CASE CompleteDeletion(r)
  <2>1. AccountBounds' /\ account'.deleted /\ personal' = {}
    BY <1>1, <1>7 DEF CompleteDeletion, RecordsInv, AccountBounds
  <2>2. FanBounds'
    BY <1>1, <2>1
       DEF RecordsInv, FanBounds, gameVars, Past, NothingPersonalRemains, EveryChangeNotified
  <2> QED BY <1>4, <1>5, <1>6, <2>1, <2>2 DEF RecordsInv
<1>8. CASE RevokeCommit(r) /\ UNCHANGED fanVars
  <2>1. \/ account' = [account EXCEPT !.password = @ + 1, !.failures = 0, !.locked = FALSE]
        \/ account' = [account EXCEPT !.password = @ + 1]
        \/ account' = account
    BY <1>8 DEF RevokeCommit
  <2>2. AccountBounds' /\ account'.deleted = account.deleted
    <3>1. CASE account' = [account EXCEPT !.password = @ + 1, !.failures = 0, !.locked = FALSE]
      <4>1. AccountBounds /\ 0 \in 0..acts
        BY Counters DEF RecordsInv
      <4>2. \A n \in Nat : n + 1 \in Nat
        OBVIOUS
      <4> QED BY <1>1, <3>1, <4>1, <4>2 DEF AccountBounds
    <3>2. CASE account' = [account EXCEPT !.password = @ + 1]
      BY <1>1, <3>2 DEF RecordsInv, AccountBounds
    <3>3. CASE account' = account
      BY <1>1, <3>3 DEF RecordsInv, AccountBounds
    <3> QED BY <2>1, <3>1, <3>2, <3>3
  <2>3. FanBounds'
    BY <1>8, <2>2, FansApart DEF RecordsInv
  <2> QED BY <1>4, <1>5, <1>6, <2>2, <2>3 DEF RecordsInv
<1> QED BY <1>7, <1>8

\* What is saved for the user, and the notices of a change.
LEMMA SavePersonalBounded ==
  ASSUME IInv, RecordsInv, NEW r \in Requests, SavePersonal(r)
  PROVE  RecordsInv'
<1>1. /\ requests' = [requests EXCEPT ![r] = Idle]
      /\ UNCHANGED <<account, sessions, signOuts, queued, clients, acts>>
      /\ UNCHANGED <<gameVars, messages, deliveries, told>>
  BY DEF SavePersonal, Continue, accountVars
<1>2. Grown
  BY <1>1, Counters DEF Grown
<1>3. RequestBounds'
  BY <1>1, <1>2, OneBounded, IdlePlain, PlainWithin
<1>4. AccountBounds' /\ RowBounds' /\ ClientBounds'
  BY <1>1 DEF RecordsInv, AccountBounds, RowBounds, ClientBounds
<1>5. requests[r].early
  BY DEF SavePersonal, RecordsInv, RequestBounds, Within
<1>6. personal' \subseteq Saved /\ overtaken' = (overtaken \/ account.deleted)
  BY <1>5 DEF SavePersonal, RecordsInv, FanBounds
<1>7. NothingPersonalRemains'
  BY <1>1, <1>6 DEF NothingPersonalRemains
<1>8. Past' = Past /\ UNCHANGED <<changes, rewound, gameVersion, rescheduling>>
  BY <1>1 DEF gameVars, Past
<1> QED BY <1>1, <1>3, <1>4, <1>6, <1>7, <1>8 DEF RecordsInv, FanBounds, EveryChangeNotified

LEMMA NotifyCommitBounded ==
  ASSUME IInv, RecordsInv, NEW r \in Requests, NEW again \in BOOLEAN, NotifyCommit(r, again)
  PROVE  RecordsInv'
<1> DEFINE request == requests[r]
           notice == Notice(request, request.version)
<1>1. /\ requests' = [requests EXCEPT ![r] = Idle] /\ Tries /\ request.step = "notify"
      /\ UNCHANGED <<account, sessions, signOuts, queued, clients>>
      /\ UNCHANGED <<personal, gameVars, overtaken>>
      /\ messages' \subseteq messages
  BY DEF NotifyCommit, Tries, accountVars
<1>2. \/ UNCHANGED <<deliveries, told>>
      \/ deliveries' = Delivery(request) /\ told' = told \cup {request.message}
  BY DEF NotifyCommit
<1>3. /\ request.message \in Messages(Past) /\ request.version \in 0..Past.changes
      /\ request.change \in request.message.change..Past.changes
      /\ ~Past.rewound => request.version = request.change
  BY <1>1 DEF RecordsInv, RequestBounds, Within
<1> HIDE DEF request
<1>4. acts' \in 0..MaxActs /\ acts <= acts' /\ acts \in Nat
  BY <1>1, TriesCounted, Counters
<1>5. Grown
  BY <1>1, <1>4, Counters DEF Grown
<1>6. RequestBounds'
  BY <1>1, <1>5, OneBounded, IdlePlain, PlainWithin
<1>7. AccountBounds' /\ RowBounds' /\ ClientBounds'
  BY <1>1, <1>4 DEF RecordsInv, AccountBounds, RowBounds, ClientBounds
<1>8. /\ notice \in Notices(Past) /\ notice.type = request.message.type
      /\ notice.change >= request.message.change
  <2>1. /\ request.message.type \in MessageTypes /\ Past.changes \in Nat
        /\ request.message.change \in 1..Past.changes
    BY <1>3, Counters DEF Messages, Past
  <2> QED BY <1>3, <2>1 DEF Notice, Notices
<1> HIDE DEF notice
<1>9. deliveries \subseteq Notices(Past) /\ deliveries' \subseteq Notices(Past)
  BY <1>2, <1>8 DEF RecordsInv, FanBounds, Delivery, notice
<1>10. EveryChangeNotified'
  <2> SUFFICES ASSUME ~rewound, NEW m \in told'
               PROVE  \E d \in deliveries' : d.type = m.type /\ d.change >= m.change
    BY <1>1 DEF EveryChangeNotified, gameVars
  <2>1. deliveries \subseteq deliveries'
    BY <1>2 DEF Delivery
  <2>2. CASE m \in told
    BY <2>1, <2>2 DEF RecordsInv, FanBounds, EveryChangeNotified
  <2>3. CASE deliveries' = Delivery(request) /\ m = request.message
    <3>1. CASE notice \in deliveries'
      BY <1>8, <2>3, <3>1
    <3>2. ASSUME NEW d \in deliveries, d.type = request.message.type,
                 d.version = request.version
          PROVE  d.type = m.type /\ d.change >= m.change
      <4>1. d.version = d.change /\ request.version = request.change
        BY <1>3, <1>9 DEF Notices, Past
      <4>2. request.change >= request.message.change /\ d.change \in Nat
        BY <1>3, <1>9, Counters DEF Messages, Notices, Past
      <4> QED BY <2>3, <3>2, <4>1, <4>2
    <3> QED BY <2>1, <2>3, <3>1, <3>2 DEF Delivery, notice
  <2> QED BY <1>2, <2>2, <2>3
<1>11. NothingPersonalRemains'
  BY <1>1 DEF RecordsInv, FanBounds, NothingPersonalRemains
<1>12. Past' = Past /\ UNCHANGED <<changes, rewound, gameVersion, rescheduling>>
  BY <1>1 DEF gameVars, Past
<1> QED BY <1>1, <1>6, <1>7, <1>9, <1>10, <1>11, <1>12 DEF RecordsInv, FanBounds

\* A change of the game commits: a command, or a reschedule with the version it has read.
LEMMA ChangeBounded ==
  ASSUME IInv, RecordsInv, NEW type \in MessageTypes, NEW version \in 1..(changes + 1),
         Change(type, version), Tries, rewound' \in BOOLEAN, rescheduling' \subseteq rescheduling,
         rewound => rewound', ~rewound' => version = changes + 1
  PROVE  RecordsInv'
<1>1. /\ UNCHANGED <<requests, account, sessions, signOuts, queued, clients>>
      /\ UNCHANGED <<personal, deliveries, told, overtaken>>
      /\ gameVersion' = version /\ changes' = changes + 1
      /\ messages' = messages \cup {[type |-> type, change |-> changes + 1]}
  BY DEF Change, accountVars
<1>2. acts' \in 0..MaxActs /\ acts <= acts' /\ acts \in Nat /\ changes \in Nat
  BY TriesCounted, Counters
<1>3. Later(Past, Past')
  BY <1>1, <1>2 DEF Later, Past
<1>4. Grown
  BY <1>1, <1>2, <1>3, Counters DEF Grown
<1>5. RequestBounds'
  BY <1>1, <1>4, RequestsLater
<1>6. AccountBounds' /\ RowBounds' /\ ClientBounds'
  BY <1>1, <1>2 DEF RecordsInv, AccountBounds, RowBounds, ClientBounds
<1>7. messages' \subseteq Messages(Past')
  <2>1. Messages(Past) \subseteq Messages(Past')
    BY <1>3 DEF Messages, Later
  <2>2. [type |-> type, change |-> changes + 1] \in Messages(Past')
    BY <1>1, <1>2 DEF Messages, Past
  <2> QED BY <1>1, <2>1, <2>2 DEF RecordsInv, FanBounds
<1>8. deliveries' \subseteq Notices(Past')
  <2>1. Notices(Past) \subseteq Notices(Past')
    BY <1>3 DEF Notices, Later
  <2> QED BY <1>1, <2>1 DEF RecordsInv, FanBounds
<1>9. /\ changes' \in Nat /\ gameVersion' \in 0..changes'
      /\ \A q \in rescheduling' : q.read \in 0..changes'
      /\ ~rewound' => gameVersion' = changes'
  BY <1>1, <1>2 DEF RecordsInv, FanBounds
<1>10. NothingPersonalRemains' /\ EveryChangeNotified' /\ personal' \subseteq Saved
  BY <1>1 DEF RecordsInv, FanBounds, NothingPersonalRemains, EveryChangeNotified
<1> QED BY <1>5, <1>6, <1>7, <1>8, <1>9, <1>10 DEF RecordsInv, FanBounds

LEMMA GameMovesBounded ==
  ASSUME IInv, RecordsInv, GameMoves
  PROVE  RecordsInv'
<1>1. /\ changes \in Nat /\ gameVersion \in 0..changes /\ rewound \in BOOLEAN
      /\ ~rewound => gameVersion = changes
      /\ \A q \in rescheduling : q.read \in 0..changes
  BY DEF RecordsInv, FanBounds
<1>2. \A n \in 0..changes : n + 1 \in 1..(changes + 1)
  BY <1>1
<1>3. CASE ChangeGame
  <2>1. Change("game.score-updated", gameVersion + 1) /\ Tries /\ UNCHANGED <<rescheduling, rewound>>
    BY <1>3 DEF ChangeGame, Tries
  <2>2. "game.score-updated" \in MessageTypes
    BY DEF MessageTypes
  <2> QED BY <1>1, <1>2, <2>1, <2>2, ChangeBounded
<1>4. ASSUME NEW q \in rescheduling, RescheduleCommit(q)
      PROVE  RecordsInv'
  <2>1. /\ Change("game.schedule-changed", q.read + 1) /\ Tries
        /\ rescheduling' \subseteq rescheduling /\ rewound' = (rewound \/ q.read # gameVersion)
    BY <1>4 DEF RescheduleCommit, Tries
  <2>2. "game.schedule-changed" \in MessageTypes
    BY DEF MessageTypes
  <2> QED BY <1>1, <1>2, <2>1, <2>2, ChangeBounded
<1>5. CASE RescheduleRead
  <2>1. /\ Tries /\ rescheduling' = rescheduling \cup {[key |-> acts', read |-> gameVersion]}
        /\ UNCHANGED <<requests, account, sessions, signOuts, queued, clients>>
        /\ UNCHANGED <<personal, messages, deliveries, told, overtaken>>
        /\ UNCHANGED <<gameVersion, changes, rewound>>
    BY <1>5 DEF RescheduleRead, Tries, accountVars
  <2>2. acts' \in 0..MaxActs /\ acts <= acts' /\ acts \in Nat
    BY <2>1, TriesCounted, Counters
  <2>3. Past' = Past /\ Later(Past, Past')
    BY <1>1, <2>1 DEF Past, Later
  <2>4. RequestBounds'
    BY <2>1, <2>2, <2>3, Counters, RequestsLater DEF Grown
  <2>5. AccountBounds' /\ RowBounds' /\ ClientBounds'
    BY <2>1, <2>2 DEF RecordsInv, AccountBounds, RowBounds, ClientBounds
  <2>6. \A q \in rescheduling' : q.read \in 0..changes'
    BY <1>1, <2>1
  <2> QED BY <1>1, <2>1, <2>3, <2>4, <2>5, <2>6
          DEF RecordsInv, FanBounds, NothingPersonalRemains, EveryChangeNotified
<1> QED BY <1>3, <1>4, <1>5 DEF GameMoves

\* Time, mail, exports and clients that sign out change no request.
LEMMA TimeBounded ==
  ASSUME IInv, IInv', RecordsInv, UNCHANGED fanVars,
         \/ Lapse \/ CompleteExport \/ Register \/ RequestPasswordReset
         \/ \E t \in DOMAIN tokens : SendAuthEmail(t)
         \/ \E c \in Clients : Logout(c)
         \/ UNCHANGED vars
  PROVE  RecordsInv'
<1>1. Tries /\ UNCHANGED <<requests, signOuts, gameVars>> /\ queued' \subseteq queued
  BY DEF Lapse, CompleteExport, Register, RequestPasswordReset, SendAuthEmail, Logout, Tries,
         fanVars, vars, sessionVars, accountVars
<1>2. acts' \in 0..MaxActs /\ acts <= acts' /\ acts \in Nat
  BY <1>1, TriesCounted, Counters
<1>3. account' = account \/ account' = [account EXCEPT !.status = "PENDING_VERIFICATION"]
  BY DEF Lapse, CompleteExport, Register, RequestPasswordReset, SendAuthEmail, Logout, vars,
         sessionVars, accountVars
<1>4. AccountBounds' /\ account'.deleted = account.deleted
  BY <1>1, <1>2, <1>3 DEF RecordsInv, AccountBounds
<1>5. FanBounds'
  BY <1>4, FansApart DEF RecordsInv
<1> DEFINE alike ==
             /\ DOMAIN sessions' = DOMAIN sessions
             /\ \A s \in DOMAIN sessions :
                  /\ sessions'[s].family = sessions[s].family /\ sessions'[s].born = sessions[s].born
                  /\ sessions'[s].since = sessions[s].since /\ sessions'[s].late = sessions[s].late
<1>6. alike
  <2>1. CASE UNCHANGED sessions
    BY <2>1
  <2>2. ASSUME NEW s, sessions' = [sessions EXCEPT ![s].lapsed = TRUE]
        PROVE  alike
    BY <2>2, Rows DEF IInv, Session
  <2>3. ASSUME NEW s, sessions' = [sessions EXCEPT ![s].revoked = TRUE]
        PROVE  alike
    BY <2>3, Rows DEF IInv, Session
  <2>4. CASE Lapse
    BY <2>1, <2>2, <2>4 DEF Lapse
  <2>5. ASSUME NEW c \in Clients, Logout(c)
        PROVE  alike
    <3> DEFINE s == clients[c].access
    <3>1. UNCHANGED sessions \/ sessions' = [sessions EXCEPT ![s].revoked = TRUE]
      BY <2>5 DEF Logout
    <3> HIDE DEF s
    <3> QED BY <2>1, <2>3, <3>1
  <2> QED BY <2>1, <2>4, <2>5
          DEF CompleteExport, Register, RequestPasswordReset, SendAuthEmail, vars, sessionVars,
              accountVars
<1>7. RowBounds' /\ Len(sessions') = Len(sessions)
  BY <1>1, <1>6, RevokedBounded
<1>8. Grown
  BY <1>1, <1>2, <1>7, Counters DEF Grown
<1>9. RequestBounds'
  BY <1>1, <1>8, RequestsLater
<1>10. ClientBounds'
  <2>1. CASE UNCHANGED clients
    BY <1>7, <2>1 DEF RecordsInv, ClientBounds
  <2>2. ASSUME NEW c \in Clients, Logout(c)
        PROVE  ClientBounds'
    <3>1. \A d \in Clients : \/ clients'[d] = clients[d]
                             \/ /\ clients'[d].refresh \in {None, clients[d].refresh}
                                /\ clients'[d].access = None
      BY <2>2 DEF Logout, IInv, TypeInv
    <3> QED BY <1>7, <3>1, Counters DEF RecordsInv, ClientBounds, None
  <2> QED BY <2>1, <2>2
          DEF Lapse, CompleteExport, Register, RequestPasswordReset, SendAuthEmail, vars,
              sessionVars
<1> QED BY <1>4, <1>5, <1>7, <1>9, <1>10 DEF RecordsInv

\* A request that nobody waits for any more carries what it carried.
LEMMA UnawaitedCarries ==
  ASSUME NEW x, RequestInv(x),
         \/ x.step \in {"refresh", "rotating", "verified"}
         \/ x.step = "revoking" /\ x.effect = "reuse",
         NEW y, y = [x EXCEPT !.client = None]
  PROVE  /\ y.step = x.step /\ y.client = None
         /\ Rotates(x) => y.since = x.since /\ y.session = x.session
         /\ x.step = "verified" => y.since = x.since
         /\ Reuses(x) => Reuses(y) /\ y.scope = x.scope
<1>1. CASE Rotates(x)
  BY <1>1 DEF RequestInv, Shape, Rotates, Reuses
<1>2. CASE x.step = "verified"
  BY <1>2 DEF RequestInv, Shape, Rotates, Reuses
<1>3. CASE x.step = "revoking" /\ x.effect = "reuse"
  BY <1>3 DEF RequestInv, Shape, Rotates, Reuses
<1> QED BY <1>1, <1>2, <1>3 DEF Rotates

\* What becomes of the requests of a client that stops.
LEMMA ClientStopped ==
  ASSUME IInv, NEW c \in Clients, ClientStops(c), NEW q \in Requests
  PROVE  \/ requests'[q] = requests[q]
         \/ requests'[q] = Idle
         \/ /\ requests[q].client = c /\ requests'[q].client = None
            /\ requests[q].step # "answer" /\ requests'[q].step = requests[q].step
            /\ requests'[q].step \in {"refresh", "rotating", "verified", "revoking"}
            /\ requests[q].step = "revoking" => Reuses(requests[q])
            /\ Rotates(requests[q]) => /\ requests'[q].since = requests[q].since
                                       /\ requests'[q].session = requests[q].session
            /\ requests[q].step = "verified" => requests'[q].since = requests[q].since
            /\ Reuses(requests[q]) => /\ Reuses(requests'[q])
                                      /\ requests'[q].scope = requests[q].scope
<1> DEFINE awaited(p) == /\ Refreshing(p) \/ requests[p].step \in {"verified", "answer"}
                         /\ requests[p].client = c
<1>1. requests' = [p \in Requests |->
        IF ~awaited(p) THEN requests[p]
        ELSE IF requests[p].step = "answer" THEN Idle
        ELSE [requests[p] EXCEPT !.client = None]]
  BY DEF ClientStops
<1>2. CASE awaited(q) /\ requests[q].step # "answer"
  <2> DEFINE x == requests[q]
             y == requests'[q]
  <2>1. y = [x EXCEPT !.client = None] /\ x.client = c
    BY <1>1, <1>2
  <2>2. \/ x.step \in {"refresh", "rotating", "verified"}
        \/ x.step = "revoking" /\ x.effect = "reuse"
    BY <1>2 DEF Refreshing
  <2>3. RequestInv(x) /\ x.step # "answer"
    BY <1>2 DEF IInv
  <2> HIDE DEF x, y
  <2>4. /\ y.step = x.step /\ y.client = None
        /\ Rotates(x) => y.since = x.since /\ y.session = x.session
        /\ x.step = "verified" => y.since = x.since
        /\ Reuses(x) => Reuses(y) /\ y.scope = x.scope
    BY <2>1, <2>2, <2>3, UnawaitedCarries
  <2>5. /\ x.client = c /\ y.client = None /\ x.step # "answer" /\ y.step = x.step
        /\ y.step \in {"refresh", "rotating", "verified", "revoking"}
        /\ x.step = "revoking" => Reuses(x)
    BY <2>1, <2>2, <2>3, <2>4 DEF Reuses
  <2> QED BY <2>4, <2>5 DEF x, y
<1>3. CASE ~awaited(q)
  BY <1>1, <1>3
<1>4. CASE awaited(q) /\ requests[q].step = "answer"
  BY <1>1, <1>4
<1> QED BY <1>2, <1>3, <1>4

LEMMA ClientStopsBounded ==
  ASSUME IInv, RecordsInv, NEW c \in Clients, ClientStops(c), UNCHANGED fanVars
  PROVE  RecordsInv'
<1>1. /\ UNCHANGED <<account, sessions, signOuts, queued, gameVars>> /\ Tries
      /\ clients' = [clients EXCEPT ![c].access = None]
  BY DEF ClientStops, Tries, accountVars, fanVars
<1>2. acts' \in 0..MaxActs /\ acts <= acts' /\ acts \in Nat
  BY <1>1, TriesCounted, Counters
<1>3. Grown
  BY <1>1, <1>2, Counters DEF Grown
<1>4. AccountBounds' /\ RowBounds' /\ FanBounds'
  BY <1>1, <1>2, FansApart DEF RecordsInv, AccountBounds, RowBounds
<1>5. ClientBounds'
  BY <1>1, Counters DEF RecordsInv, ClientBounds, IInv, TypeInv, None
<1>6. RequestBounds'
  <2> SUFFICES ASSUME NEW q \in Requests
               PROVE  Within(requests'[q], Past', signOuts', Len(sessions'), acts')
    BY DEF RequestBounds
  <2> DEFINE x == requests[q]
             y == requests'[q]
  <2>1. RequestInv(x) /\ Within(x, Past, signOuts, Len(sessions), acts)
    BY DEF IInv, RecordsInv, RequestBounds
  <2>2. \/ y = x \/ y = Idle
        \/ /\ y.step = x.step /\ y.step \in {"refresh", "rotating", "verified", "revoking"}
           /\ x.step = "revoking" => Reuses(x)
           /\ Rotates(x) => y.since = x.since /\ y.session = x.session
           /\ x.step = "verified" => y.since = x.since
           /\ Reuses(x) => Reuses(y) /\ y.scope = x.scope
    BY ClientStopped
  <2> HIDE DEF x, y
  <2>3. Within(x, Past', signOuts', Len(sessions'), acts')
    BY <2>1, <1>3, Counters, WithinLater DEF Grown
  <2>4. Within(Idle, Past', signOuts', Len(sessions'), acts')
    BY IdlePlain, PlainWithin
  <2>5. Within(y, Past', signOuts', Len(sessions'), acts')
    BY <2>2, <2>3, <2>4 DEF Within, Rotates, Carries, Reuses
  <2> QED BY <2>5 DEF y
<1> QED BY <1>4, <1>5, <1>6 DEF RecordsInv

LEMMA RecordsInitial == Init => RecordsInv
<1> SUFFICES ASSUME Init
             PROVE  RecordsInv
  OBVIOUS
<1>1. /\ sessions = <<>> /\ signOuts = 0 /\ acts = 0 /\ queued = {}
      /\ clients = [c \in Clients |-> [refresh |-> None, access |-> None]]
      /\ requests = [r \in Requests |-> Idle]
      /\ personal \in {{}, {"device", "favorite"}} /\ ~account.deleted
      /\ gameVersion = 0 /\ changes = 0 /\ rescheduling = {} /\ rewound = FALSE
      /\ messages = {} /\ deliveries = {} /\ told = {}
  BY DEF Init, SessionsInit
<1>2. AccountBounds
  BY <1>1, SessionsAssumption DEF Init, SessionsInit, AccountBounds
<1>3. RowBounds /\ ClientBounds
  BY <1>1 DEF RowBounds, ClientBounds, None
<1>4. RequestBounds
  BY <1>1, IdlePlain, PlainWithin DEF RequestBounds
<1>5. FanBounds
  <2>1. personal \subseteq Saved
    BY <1>1 DEF Saved
  <2>2. NothingPersonalRemains /\ EveryChangeNotified
    BY <1>1 DEF NothingPersonalRemains, EveryChangeNotified
  <2>3. messages \subseteq Messages(Past) /\ deliveries \subseteq Notices(Past)
    BY <1>1
  <2>4. \A q \in rescheduling : q.read \in 0..changes
    BY <1>1
  <2>5. changes \in Nat /\ gameVersion \in 0..changes /\ gameVersion = changes
    <3>1. changes = 0 /\ gameVersion = 0
      BY <1>1
    <3> QED BY <3>1
  <2>6. rewound \in BOOLEAN
    BY <1>1
  <2> QED BY <2>1, <2>2, <2>3, <2>4, <2>5, <2>6, Zenon DEF FanBounds
<1> QED BY <1>2, <1>3, <1>4, <1>5 DEF RecordsInv

LEMMA RecordsStep == IInv /\ RecordsInv /\ [Next]_vars => RecordsInv'
<1> SUFFICES ASSUME IInv, RecordsInv, [Next]_vars
             PROVE  RecordsInv'
  OBVIOUS
<1>1. IInv'
  BY Inductive
<1>2. CASE UNCHANGED vars
  BY <1>1, <1>2, TimeBounded DEF vars, fanVars
<1>3. CASE Progress
  <2>1. ASSUME NEW r \in Requests, Handling(r), UNCHANGED fanVars
        PROVE  RecordsInv'
    BY <1>1, <2>1, AccountBounded, CreateSessionBounded, RotateCommitBounded, AnswersBounded,
       ReadsKeep, RevokeBounded, ReuseBounded DEF Handling
  <2>2. ASSUME NEW r \in Requests, SavePersonal(r) \/ CompleteDeletion(r) \/ NotifyCommit(r, FALSE)
                                   \/ \E message \in messages : NotifyRead(r, message)
        PROVE  RecordsInv'
    BY <1>1, <2>2, SavePersonalBounded, RevokeBounded, NotifyCommitBounded, NotifyReadBounded
  <2>3. ASSUME NEW r \in Requests, DeletionStarts(r), UNCHANGED fanVars
        PROVE  RecordsInv'
    BY <2>3, ReadsKeep
  <2>4. CASE CompleteExport \/ \E t \in DOMAIN tokens : SendAuthEmail(t) /\ UNCHANGED fanVars
    BY <1>1, <2>4, TimeBounded DEF CompleteExport
  <2>5. ASSUME NEW q \in rescheduling, RescheduleCommit(q)
        PROVE  RecordsInv'
    BY <2>5, GameMovesBounded DEF GameMoves
  <2> QED BY <1>3, <2>1, <2>2, <2>3, <2>4, <2>5 DEF Progress
<1>4. CASE Events
  <2>1. ASSUME NEW r \in Requests, Arrivals(r), UNCHANGED fanVars
        PROVE  RecordsInv'
    <3>1. ASSUME NEW t \in DOMAIN tokens, VerifyRead(r, t) \/ ResetRead(r, t)
          PROVE  RecordsInv'
      BY <2>1, <3>1, ReadsKeep
    <3>2. ASSUME NEW c \in Clients, \/ \E correct \in BOOLEAN : LoginRead(r, c, correct)
                                    \/ RefreshRead(r, c)
                                    \/ \E effect : Authorize(r, c, effect)
          PROVE  RecordsInv'
      BY <2>1, <3>2, LoginReadBounded, RefreshReadBounded, ReadsKeep
    <3>3. CASE AnswerLost(r) \/ Fail(r)
      BY <2>1, <3>3, AnswersBounded, ReadsKeep
    <3> QED BY <2>1, <3>1, <3>2, <3>3 DEF Arrivals
  <2>2. CASE (Register \/ RequestPasswordReset \/ Lapse) /\ UNCHANGED fanVars
    BY <1>1, <2>2, TimeBounded
  <2>3. ASSUME NEW c \in Clients, ClientStops(c) \/ Logout(c), UNCHANGED fanVars
        PROVE  RecordsInv'
    BY <1>1, <2>3, ClientStopsBounded, TimeBounded
  <2>4. CASE ChangeGame \/ RescheduleRead
    BY <2>4, GameMovesBounded DEF GameMoves
  <2>5. ASSUME NEW r \in Requests, NotifyCommit(r, TRUE)
        PROVE  RecordsInv'
    BY <2>5, NotifyCommitBounded
  <2> QED BY <1>4, <2>1, <2>2, <2>3, <2>4, <2>5 DEF Events
<1> QED BY <1>2, <1>3, <1>4 DEF Next

\* The rows, the requests and the clients of an account have the types of the model, its
\* failed logins counted and its sessions numbered, whatever happens.
THEOREM AccountsTyped == Spec => []TypeOK
<1>1. IInv /\ LeavingInv /\ RecordsInv => TypeOK
  <2> SUFFICES ASSUME IInv, LeavingInv, RecordsInv
               PROVE  TypeOK
    OBVIOUS
  <2>1. account \in [status : {"NONE", "PENDING_VERIFICATION", "ACTIVE", "DELETION_REQUESTED",
                               "DEACTIVATED"},
                     password : Nat, failures : 0..MaxActs, locked : BOOLEAN, deleted : BOOLEAN]
    BY SessionsAssumption DEF RecordsInv, AccountBounds
  <2>2. \A t \in DOMAIN tokens : tokens[t] \in [kind : {"verification", "reset"},
                                                state : {"queued", "sent", "used", "lapsed"}]
    <3> SUFFICES ASSUME NEW t \in DOMAIN tokens
                 PROVE  tokens[t] \in Token
      BY DEF Token
    <3>1. tokens \in Seq(Token)
      BY DEF LeavingInv
    <3> QED BY <3>1
  <2>3. ASSUME NEW s \in DOMAIN sessions
        PROVE  /\ sessions[s].family \in 1..s
               /\ {sessions[s].revoked, sessions[s].lapsed} \subseteq BOOLEAN
               /\ sessions[s].since <= sessions[s].born
               /\ {sessions[s].born, sessions[s].late} \subseteq 0..signOuts
    <3>1. sessions[s] \in Session /\ s \in Nat /\ signOuts \in Nat
      BY Rows DEF IInv, TypeInv
    <3> QED BY <3>1 DEF Session, RecordsInv, RowBounds, IInv, FamiliesInv
  <2>4. \A c \in Clients : {clients[c].refresh, clients[c].access} \subseteq 0..Len(sessions)
    BY Rows DEF IInv, TypeInv, RecordsInv, ClientBounds
  <2>5. \A d \in deliveries :
          d.type \in MessageTypes /\ d.version \in 0..changes /\ d.change \in 1..changes
    BY DEF RecordsInv, FanBounds, Notices, Past
  <2> QED BY <2>1, <2>2, <2>3, <2>4, <2>5 DEF TypeOK, RecordsInv, AccountBounds, FanBounds
<1>2. Init => IInv /\ LeavingInv /\ RecordsInv
  BY Initial, LeavingInitial, RecordsInitial
<1>3. IInv /\ LeavingInv /\ RecordsInv /\ [Next]_vars => IInv' /\ LeavingInv' /\ RecordsInv'
  BY Inductive, LeavingStep, RecordsStep
<1> QED BY <1>1, <1>2, <1>3, PTL DEF Spec

\* After completeDeletion (job-handler.service.ts:245) nothing personal is left, and a
\* session that has outlived the deletion saves nothing: the guard (jwt-auth.guard.ts:44)
\* looks at the account as well.  Only a request that passed it before the deletion can
\* save something later, for any interleaving of requests, logins, refreshes and the job.
THEOREM ForgottenForGood == Spec => []NothingPersonalRemains
<1>1. IInv /\ RecordsInv => NothingPersonalRemains
  BY DEF RecordsInv, FanBounds
<1>2. Init => IInv /\ RecordsInv
  BY Initial, RecordsInitial
<1>3. IInv /\ RecordsInv /\ [Next]_vars => IInv' /\ RecordsInv'
  BY Inductive, RecordsStep
<1> QED BY <1>1, <1>2, <1>3, PTL DEF Spec

\* A key of type and version (job-handler.service.ts:164) never swallows a newer change,
\* however late, often and disordered the messages are handled and whatever reschedules
\* race with commands, as long as none has written a version that was used already
\* (games.service.ts:250-265).
THEOREM NoChangeSwallowed == Spec => []EveryChangeNotified
<1>1. IInv /\ RecordsInv => EveryChangeNotified
  BY DEF RecordsInv, FanBounds
<1>2. Init => IInv /\ RecordsInv
  BY Initial, RecordsInitial
<1>3. IInv /\ RecordsInv /\ [Next]_vars => IInv' /\ RecordsInv'
  BY Inductive, RecordsStep
<1> QED BY <1>1, <1>2, <1>3, PTL DEF Spec

-----------------------------------------------------------------------------
\* Sessions of one sign-in, and who has the tokens of a session or is to be answered with
\* its successor's.
Kin(s, u) == sessions[s].family = sessions[u].family

Holder(c, s) ==
  \/ s # None /\ clients[c].refresh = s
  \/ \E q \in Requests : /\ Carries(requests[q])
                         /\ requests[q].client = c /\ requests[q].session = s

\* The tokens of a sign-in are with one client.
Owned ==
  \A c, d \in Clients : \A s, u \in DOMAIN sessions :
    Holder(c, s) /\ Holder(d, u) /\ Kin(s, u) => c = d

\* The tokens of a login that is not answered yet are with nobody else.
Fresh ==
  \A q \in Requests : requests[q].step = "answer" /\ requests[q].login =>
    /\ \A c \in Clients : clients[c].refresh # None =>
         ~Kin(clients[c].refresh, requests[q].session)
    /\ \A r \in Requests \ {q} : Carries(requests[r]) =>
         ~Kin(requests[r].session, requests[q].session)

\* No other session of a sign-in is active, and none is being rotated.
Sole(s)  == \A u \in Active : Kin(u, s) => u = s
Alone(s) == \A q \in Requests : Rotates(requests[q]) => ~Kin(requests[q].session, s)

Waits(c) == \E q \in Requests : Refreshing(q) /\ requests[q].client = c

\* The token that an app may present next is the last of its sign-in, wherever it is: with
\* the app, in the one rotation under way, or in an answer.
Safe(c) ==
  /\ clients[c].refresh # None /\ ~Waits(c) =>
       Sole(clients[c].refresh) /\ Alone(clients[c].refresh)
  /\ \A q \in Requests : requests[q].client = c =>
       /\ Rotates(requests[q]) =>
            /\ Sole(requests[q].session)
            /\ \A p \in Requests :
                 Rotates(requests[p]) /\ Kin(requests[p].session, requests[q].session) => p = q
       /\ requests[q].step = "answer" => Sole(requests[q].session) /\ Alone(requests[q].session)
       /\ Reuses(requests[q]) => requests[q].scope \cap Active = {}

\* What makes AppsKeepTheirSession inductive.
AppsInv == /\ AppsKeepTheirSession /\ Owned /\ Fresh
           /\ \A c \in Apps \ stopped : Safe(c)

LEMMA Referenced ==
  ASSUME IInv, RecordsInv
  PROVE  /\ \A q \in Requests : Carries(requests[q]) => requests[q].session \in DOMAIN sessions
         /\ \A c \in Clients : clients[c].refresh # None => clients[c].refresh \in DOMAIN sessions
         /\ \A q \in Requests : Reuses(requests[q]) => requests[q].scope \subseteq DOMAIN sessions
         /\ \A c \in Clients : \A s : Holder(c, s) => s \in DOMAIN sessions
<1>1. DOMAIN sessions = 1..Len(sessions) /\ Len(sessions) \in Nat
  BY Rows DEF IInv
<1>2. \A q \in Requests : /\ Carries(requests[q]) => requests[q].session \in DOMAIN sessions
                          /\ Reuses(requests[q]) => requests[q].scope \subseteq DOMAIN sessions
  BY <1>1 DEF RecordsInv, RequestBounds, Within
<1>3. \A c \in Clients : clients[c].refresh # None => clients[c].refresh \in DOMAIN sessions
  BY <1>1 DEF RecordsInv, ClientBounds, IInv, TypeInv, None
<1> QED BY <1>2, <1>3 DEF Holder

\* A request goes on as it was, or with the session it has, or is of no concern any more.
Aloof(x) == ~Carries(x) /\ ~Reuses(x)

Descends(x, y) ==
  \/ Aloof(y)
  \/ /\ y.client \in {x.client, None}
     /\ Rotates(y) => Rotates(x) /\ y.session = x.session
     /\ y.step = "answer" => y = x
     /\ Reuses(y) => Reuses(x) /\ y.scope = x.scope

SessionsFrame ==
  /\ DOMAIN sessions' = DOMAIN sessions /\ Active' \subseteq Active
  /\ \A s \in DOMAIN sessions : sessions'[s].family = sessions[s].family

\* A client keeps its token, loses it, or has been answered with it.
Answered(d) ==
  \E r \in Requests : /\ requests[r].step = "answer" /\ requests[r].client = d
                      /\ requests[r].session = clients'[d].refresh /\ requests'[r] = Idle

ClientKeeps(d) ==
  \/ clients'[d].refresh = None
  \/ clients'[d].refresh = clients[d].refresh /\ (d \in Apps \ stopped' /\ Waits(d) => Waits(d)')
  \/ Answered(d)

\* Steps that insert no session and begin no refresh.
LEMMA NothingBegins ==
  ASSUME IInv, RecordsInv, AppsInv, IInv', RecordsInv', SessionsFrame,
         \A q \in Requests : Descends(requests[q], requests'[q]),
         \A d \in Clients : ClientKeeps(d), stopped \subseteq stopped'
  PROVE  /\ Owned' /\ Fresh'
         /\ \A c \in Apps \ stopped' : Safe(c)'
<1>1. \A s, u \in DOMAIN sessions : Kin(s, u)' <=> Kin(s, u)
  BY DEF SessionsFrame, Kin
<1>2. Idle.step = "idle" /\ Aloof(Idle)
  BY DEF Idle, Aloof, Carries, Rotates, Reuses
<1>3. ASSUME NEW q \in Requests, Carries(requests'[q])
      PROVE  /\ Carries(requests[q]) /\ requests'[q].session = requests[q].session
             /\ requests'[q].client \in {requests[q].client, None}
             /\ requests'[q].session \in DOMAIN sessions
             /\ Rotates(requests'[q]) => Rotates(requests[q])
             /\ requests'[q].step = "answer" => requests'[q] = requests[q]
  BY <1>3, Referenced DEF Descends, Aloof, Carries, Rotates
<1>4. ASSUME NEW d \in Clients, NEW s, Holder(d, s)'
      PROVE  Holder(d, s) /\ s \in DOMAIN sessions
  <2>1. CASE s # None /\ clients'[d].refresh = s
    BY <2>1, Referenced DEF ClientKeeps, Answered, Holder, Carries
  <2>2. CASE \E q \in Requests : Carries(requests'[q]) /\ requests'[q].client = d
                                 /\ requests'[q].session = s
    BY <1>3, <2>2, SessionsAssumption, Referenced DEF Holder
  <2> QED BY <1>4, <2>1, <2>2 DEF Holder
<1>5. Owned'
  BY <1>1, <1>4 DEF AppsInv, Owned, SessionsFrame
<1>6. Fresh'
  <2> SUFFICES ASSUME NEW q \in Requests, requests'[q].step = "answer", requests'[q].login
               PROVE  /\ \A c \in Clients : clients'[c].refresh # None =>
                           ~Kin(clients[c].refresh, requests[q].session)'
                      /\ \A r \in Requests \ {q} : Carries(requests'[r]) =>
                           ~Kin(requests[r].session, requests[q].session)'
    BY DEF Fresh
  <2>1. requests'[q] = requests[q] /\ requests[q].session \in DOMAIN sessions
    BY <1>3 DEF Carries
  <2>2. ASSUME NEW c \in Clients, clients'[c].refresh # None
        PROVE  ~Kin(clients[c].refresh, requests[q].session)'
    <3>1. clients'[c].refresh \in DOMAIN sessions
      BY <2>2, <1>4 DEF Holder
    <3>2. ~Kin(clients'[c].refresh, requests[q].session)
      <4>1. CASE clients'[c].refresh = clients[c].refresh
        BY <2>1, <2>2, <4>1 DEF AppsInv, Fresh
      <4>2. CASE Answered(c)
        <5>1. PICK r \in Requests : /\ requests[r].step = "answer"
                                    /\ requests[r].session = clients'[c].refresh
                                    /\ requests'[r] = Idle
          BY <4>2 DEF Answered
        <5>2. r # q
          BY <1>2, <5>1
        <5> QED BY <2>1, <5>1, <5>2 DEF AppsInv, Fresh, Carries
      <4> QED BY <2>2, <4>1, <4>2 DEF ClientKeeps
    <3> QED BY <1>1, <2>1, <3>1, <3>2 DEF Kin
  <2>3. ASSUME NEW r \in Requests \ {q}, Carries(requests'[r])
        PROVE  ~Kin(requests[r].session, requests[q].session)'
    <3>1. /\ Carries(requests[r]) /\ requests'[r].session = requests[r].session
          /\ requests[r].session \in DOMAIN sessions
      BY <1>3, <2>3
    <3>2. ~Kin(requests[r].session, requests[q].session)
      BY <2>1, <3>1 DEF AppsInv, Fresh
    <3> QED BY <1>1, <2>1, <3>1, <3>2 DEF Kin
  <2> QED BY <2>2, <2>3
<1>7. ASSUME NEW c \in Apps \ stopped'
      PROVE  Safe(c)'
  <2>1. Safe(c) /\ c \in Clients
    BY DEF AppsInv, Clients
  <2>2. ASSUME NEW s \in DOMAIN sessions, Sole(s)
        PROVE  Sole(s)'
    BY <1>1, <2>2 DEF Sole, SessionsFrame, Active
  <2>3. ASSUME NEW s \in DOMAIN sessions, Alone(s)
        PROVE  Alone(s)'
    <3> SUFFICES ASSUME NEW q \in Requests, Rotates(requests'[q])
                 PROVE  ~Kin(requests[q].session, s)'
      BY DEF Alone
    <3>1. /\ Rotates(requests[q]) /\ requests'[q].session = requests[q].session
          /\ requests[q].session \in DOMAIN sessions
      BY <1>3 DEF Carries
    <3> QED BY <1>1, <2>3, <3>1 DEF Alone, Kin
  <2>4. ASSUME clients'[c].refresh # None, ~Waits(c)'
        PROVE  Sole(clients[c].refresh)' /\ Alone(clients[c].refresh)'
    <3>1. PICK s \in DOMAIN sessions : s = clients'[c].refresh
      BY <1>4, <2>1, <2>4 DEF Holder
    <3>2. Sole(s) /\ Alone(s)
      <4>1. CASE s = clients[c].refresh /\ ~Waits(c)
        BY <2>1, <2>4, <3>1, <4>1 DEF Safe
      <4>2. CASE Answered(c)
        BY <2>1, <3>1, <4>2 DEF Safe, Answered
      <4> QED BY <2>1, <2>4, <3>1, <4>1, <4>2 DEF ClientKeeps
    <3>3. Sole(s)' /\ Alone(s)'
      BY <2>2, <2>3, <3>2
    <3> QED BY <3>1, <3>3
  <2>5. ASSUME NEW q \in Requests, requests'[q].client = c
        PROVE  /\ Rotates(requests'[q]) =>
                    /\ Sole(requests[q].session)'
                    /\ \A p \in Requests : Rotates(requests'[p])
                         /\ Kin(requests[p].session, requests[q].session)' => p = q
               /\ requests'[q].step = "answer" =>
                    Sole(requests[q].session)' /\ Alone(requests[q].session)'
               /\ Reuses(requests'[q]) => requests'[q].scope \cap Active' = {}
    <3>1. ASSUME Rotates(requests'[q])
          PROVE  /\ Sole(requests[q].session)'
                 /\ \A p \in Requests : Rotates(requests'[p])
                      /\ Kin(requests[p].session, requests[q].session)' => p = q
      <4>1. /\ Rotates(requests[q]) /\ requests[q].client = c
            /\ requests'[q].session = requests[q].session
            /\ requests[q].session \in DOMAIN sessions
        BY <1>3, <2>1, <2>5, <3>1, SessionsAssumption DEF Carries
      <4>2. PICK s \in DOMAIN sessions : s = requests[q].session /\ s = requests'[q].session
        BY <4>1
      <4>3. Sole(s) /\ \A p \in Requests :
              Rotates(requests[p]) /\ Kin(requests[p].session, s) => p = q
        BY <2>1, <4>1, <4>2 DEF Safe
      <4>4. ASSUME NEW p \in Requests, Rotates(requests'[p]), Kin(requests[p].session, s)'
            PROVE  p = q
        <5>1. /\ Rotates(requests[p]) /\ requests'[p].session = requests[p].session
              /\ requests[p].session \in DOMAIN sessions
          BY <1>3, <4>4 DEF Carries
        <5> QED BY <1>1, <4>3, <4>4, <5>1 DEF Kin
      <4> QED BY <2>2, <4>2, <4>3, <4>4 DEF Kin
    <3>2. ASSUME requests'[q].step = "answer"
          PROVE  Sole(requests[q].session)' /\ Alone(requests[q].session)'
      <4>1. requests'[q] = requests[q] /\ requests[q].session \in DOMAIN sessions
        BY <1>3, <3>2 DEF Carries
      <4>2. PICK s \in DOMAIN sessions : s = requests[q].session /\ s = requests'[q].session
        BY <4>1
      <4>3. Sole(s) /\ Alone(s)
        BY <2>1, <2>5, <3>2, <4>1, <4>2 DEF Safe
      <4>4. Sole(s)' /\ Alone(s)'
        BY <2>2, <2>3, <4>3
      <4> QED BY <4>2, <4>4
    <3>3. ASSUME Reuses(requests'[q])
          PROVE  requests'[q].scope \cap Active' = {}
      <4>1. Reuses(requests[q]) /\ requests'[q].scope = requests[q].scope
            /\ requests[q].client = c
        BY <2>1, <2>5, <3>3, SessionsAssumption DEF Descends, Aloof
      <4> QED BY <2>1, <4>1 DEF Safe, SessionsFrame
    <3> QED BY <3>1, <3>2, <3>3
  <2> QED BY <2>4, <2>5 DEF Safe
<1> QED BY <1>5, <1>6, <1>7

LEMMA OneDescends ==
  ASSUME IInv, NEW r \in Requests, NEW x, requests' = [requests EXCEPT ![r] = x],
         Descends(requests[r], x)
  PROVE  \A q \in Requests : Descends(requests[q], requests'[q])
<1>1. \A q \in Requests : requests'[q] = IF q = r THEN x ELSE requests[q]
  BY DEF IInv, TypeInv
<1> QED BY <1>1 DEF Descends

\* A step of a request that nobody waits for, or of one that goes on, ends no wait.
LEMMA WaitStays ==
  ASSUME IInv, NEW r \in Requests, NEW x, requests' = [requests EXCEPT ![r] = x],
         ~Refreshing(r) \/ (Rotates(x) /\ x.client = requests[r].client), NEW d, Waits(d)
  PROVE  Waits(d)'
<1>1. \A q \in Requests : requests'[q] = IF q = r THEN x ELSE requests[q]
  BY DEF IInv, TypeInv
<1> QED BY <1>1 DEF Waits, Refreshing, Rotates

LEMMA SameFrame == UNCHANGED sessions => SessionsFrame
  BY DEF SessionsFrame, Active

LEMMA IdleAloof == Aloof(Idle) /\ Idle.step = "idle"
  BY DEF Idle, Aloof, Carries, Rotates, Reuses

\* Steps of requests that have to do with no refresh.
LEMMA AloofKeeps ==
  ASSUME IInv, RecordsInv, AppsInv, IInv', RecordsInv', SessionsFrame,
         NEW r \in Requests, NEW x, Aloof(x), requests' = [requests EXCEPT ![r] = x],
         ~Refreshing(r), UNCHANGED <<clients, stopped, bereft>>
  PROVE  AppsInv'
<1>1. \A q \in Requests : Descends(requests[q], requests'[q])
  BY OneDescends DEF Descends
<1>2. \A d \in Clients : ClientKeeps(d)
  BY WaitStays DEF ClientKeeps
<1>3. AppsKeepTheirSession'
  BY DEF AppsInv, AppsKeepTheirSession
<1> QED BY <1>1, <1>2, <1>3, NothingBegins DEF AppsInv

LEMMA RevokedFrame ==
  ASSUME DOMAIN sessions' = DOMAIN sessions,
         \A s \in DOMAIN sessions : /\ sessions'[s].family = sessions[s].family
                                    /\ sessions[s].revoked => sessions'[s].revoked
  PROVE  SessionsFrame
  BY DEF SessionsFrame, Active

LEMMA ReadsApart ==
  ASSUME IInv, RecordsInv, AppsInv, IInv', RecordsInv', NEW r \in Requests,
         \/ SignOutAll(r) \/ DeletionStarts(r) \/ Fail(r)
         \/ \E t \in DOMAIN tokens : VerifyRead(r, t) \/ ResetRead(r, t)
         \/ \E c \in Clients : \/ \E effect : Authorize(r, c, effect)
                               \/ \E correct \in BOOLEAN : LoginRead(r, c, correct)
         \/ \E message \in messages : NotifyRead(r, message)
  PROVE  AppsInv'
<1> USE DEF Begin, Continue, accountVars
<1>1. ASSUME NEW x, Aloof(x), requests' = [requests EXCEPT ![r] = x], ~Refreshing(r),
             UNCHANGED <<sessions, clients, stopped, bereft>>
      PROVE  AppsInv'
  BY <1>1, SameFrame, AloofKeeps
<1>2. requests[r] = Idle => ~Refreshing(r)
  BY IdleAloof DEF Refreshing
<1>3. CASE SignOutAll(r)
  <2> DEFINE x == [step |-> "revoking", effect |-> requests[r].effect, client |-> None,
                   token |-> IF requests[r].step = "reset" THEN requests[r].token ELSE None,
                   scope |-> EverySession, known |-> Len(sessions)]
  <2>1. Aloof(x) /\ ~Refreshing(r)
    BY <1>3 DEF SignOutAll, IInv, RequestInv, Shape, Aloof, Reuses, Carries, Rotates, Refreshing
  <2>2. requests' = [requests EXCEPT ![r] = x] /\ UNCHANGED <<sessions, clients, stopped, bereft>>
    BY <1>3 DEF SignOutAll
  <2> HIDE DEF x
  <2> QED BY <1>1, <2>1, <2>2
<1>4. CASE DeletionStarts(r)
  <2> DEFINE x == [step |-> "revoking", effect |-> "DELETION", client |-> None, token |-> None,
                   scope |-> EverySession, known |-> Len(sessions)]
  <2>1. Aloof(x) /\ ~Refreshing(r)
    BY <1>2, <1>4 DEF DeletionStarts, Aloof, Reuses, Carries, Rotates
  <2>2. requests' = [requests EXCEPT ![r] = x] /\ UNCHANGED <<sessions, clients, stopped, bereft>>
    BY <1>4 DEF DeletionStarts
  <2> HIDE DEF x
  <2> QED BY <1>1, <2>1, <2>2
<1>5. CASE Fail(r)
  <2>1. ~Refreshing(r)
    BY <1>5 DEF Fail, Refreshing
  <2> QED BY <1>1, <1>5, <2>1, IdleAloof DEF Fail
<1>6. ASSUME NEW t \in DOMAIN tokens, VerifyRead(r, t)
      PROVE  AppsInv'
  <2> DEFINE x == [step |-> "verify", token |-> t, found |-> account.status]
  <2>1. Aloof(x) /\ ~Refreshing(r)
    BY <1>2, <1>6 DEF VerifyRead, Aloof, Reuses, Carries, Rotates
  <2>2. requests' = [requests EXCEPT ![r] = x] /\ UNCHANGED <<sessions, clients, stopped, bereft>>
    BY <1>6 DEF VerifyRead
  <2> HIDE DEF x
  <2> QED BY <1>1, <2>1, <2>2
<1>7. ASSUME NEW t \in DOMAIN tokens, ResetRead(r, t)
      PROVE  AppsInv'
  <2> DEFINE x == [step |-> "reset", effect |-> "reset", token |-> t]
  <2>1. Aloof(x) /\ ~Refreshing(r)
    BY <1>2, <1>7 DEF ResetRead, Aloof, Reuses, Carries, Rotates
  <2>2. requests' = [requests EXCEPT ![r] = x] /\ UNCHANGED <<sessions, clients, stopped, bereft>>
    BY <1>7 DEF ResetRead
  <2> HIDE DEF x
  <2> QED BY <1>1, <2>1, <2>2
<1>8. ASSUME NEW c \in Clients, NEW effect, Authorize(r, c, effect)
      PROVE  AppsInv'
  <2> DEFINE x == [step |-> "authorized", effect |-> effect, early |-> ~account.deleted]
  <2>1. Aloof(x) /\ ~Refreshing(r)
    BY <1>2, <1>8 DEF Authorize, Aloof, Reuses, Carries, Rotates
  <2>2. requests' = [requests EXCEPT ![r] = x] /\ UNCHANGED <<sessions, clients, stopped, bereft>>
    BY <1>8 DEF Authorize
  <2> HIDE DEF x
  <2> QED BY <1>1, <2>1, <2>2
<1>9. ASSUME NEW c \in Clients, NEW correct \in BOOLEAN, LoginRead(r, c, correct)
      PROVE  AppsInv'
  <2> DEFINE verified == [step |-> "verified", client |-> c, since |-> signOuts]
             mistaken == [step |-> "mistaken", client |-> c, failures |-> account.failures]
  <2>1. Aloof(verified) /\ Aloof(mistaken) /\ ~Refreshing(r)
    BY <1>2, <1>9 DEF LoginRead, Aloof, Reuses, Carries, Rotates
  <2>2. \/ requests' = [requests EXCEPT ![r] = verified]
        \/ requests' = [requests EXCEPT ![r] = mistaken]
    BY <1>9 DEF LoginRead
  <2>3. UNCHANGED <<sessions, clients, stopped, bereft>>
    BY <1>9 DEF LoginRead
  <2> HIDE DEF verified, mistaken
  <2> QED BY <1>1, <2>1, <2>2, <2>3
<1>10. ASSUME NEW message \in messages, NotifyRead(r, message)
       PROVE  AppsInv'
  <2> DEFINE x == [step |-> "notify", message |-> message, version |-> gameVersion,
                   change |-> changes, follows |-> "favorite" \in personal]
  <2>1. Aloof(x) /\ ~Refreshing(r)
    BY <1>2, <1>10 DEF NotifyRead, Aloof, Reuses, Carries, Rotates
  <2>2. requests' = [requests EXCEPT ![r] = x] /\ UNCHANGED <<sessions, clients, stopped, bereft>>
    BY <1>10 DEF NotifyRead
  <2> HIDE DEF x
  <2> QED BY <1>1, <2>1, <2>2
<1> QED BY <1>3, <1>4, <1>5, <1>6, <1>7, <1>8, <1>9, <1>10

LEMMA EndsApart ==
  ASSUME IInv, RecordsInv, AppsInv, IInv', RecordsInv', NEW r \in Requests,
         \/ VerifyCommit(r) \/ RecordFailedLogin(r) \/ RequestDataAction(r)
         \/ SavePersonal(r) \/ NotifyCommit(r, TRUE) \/ NotifyCommit(r, FALSE)
         \/ RevokeCommit(r) \/ CompleteDeletion(r)
  PROVE  AppsInv'
<1>1. /\ requests' = [requests EXCEPT ![r] = Idle] /\ UNCHANGED <<clients, stopped, bereft>>
      /\ ~Refreshing(r)
  BY DEF VerifyCommit, RecordFailedLogin, RequestDataAction, SavePersonal, NotifyCommit,
         RevokeCommit, CompleteDeletion, Continue, accountVars, Refreshing
<1>2. SessionsFrame
  <2>1. CASE UNCHANGED sessions
    BY <2>1, SameFrame
  <2>2. CASE sessions' = Revoked(requests[r])
    <3> DEFINE known == requests[r].known
               scope == requests[r].scope
    <3>1. sessions' = [s \in DOMAIN sessions |->
            [sessions[s] EXCEPT !.revoked = @ \/ s \in scope,
                                !.late = IF s > known THEN signOuts + 1 ELSE @]]
      BY <2>2 DEF Revoked
    <3> HIDE DEF known, scope
    <3>2. \A s \in DOMAIN sessions : /\ sessions'[s].family = sessions[s].family
                                     /\ sessions[s].revoked => sessions'[s].revoked
      BY <3>1, Rows DEF IInv, Session
    <3> QED BY <3>1, <3>2, RevokedFrame
  <2> QED BY <2>1, <2>2
          DEF VerifyCommit, RecordFailedLogin, RequestDataAction, SavePersonal, NotifyCommit,
              RevokeCommit, CompleteDeletion, accountVars
<1> QED BY <1>1, <1>2, IdleAloof, AloofKeeps

LEMMA TimeApart ==
  ASSUME IInv, RecordsInv, AppsInv, IInv', RecordsInv',
         \/ Lapse \/ CompleteExport \/ Register \/ RequestPasswordReset
         \/ \E t \in DOMAIN tokens : SendAuthEmail(t)
         \/ \E c \in Clients : Logout(c)
         \/ GameMoves
         \/ UNCHANGED vars
  PROVE  AppsInv'
<1>1. UNCHANGED <<requests, stopped, bereft>>
  BY GameMovesApart
     DEF Lapse, CompleteExport, Register, RequestPasswordReset, SendAuthEmail, Logout, vars,
         sessionVars, accountVars
<1>2. SessionsFrame
  <2>1. CASE UNCHANGED sessions
    BY <2>1, SameFrame
  <2>2. ASSUME NEW s, sessions' = [sessions EXCEPT ![s].lapsed = TRUE]
        PROVE  SessionsFrame
    <3>1. \A u \in DOMAIN sessions : /\ sessions'[u].family = sessions[u].family
                                     /\ sessions[u].revoked => sessions'[u].revoked
      BY <2>2, Rows DEF IInv, Session
    <3> QED BY <2>2, <3>1, RevokedFrame
  <2>3. ASSUME NEW s, sessions' = [sessions EXCEPT ![s].revoked = TRUE]
        PROVE  SessionsFrame
    <3>1. \A u \in DOMAIN sessions : /\ sessions'[u].family = sessions[u].family
                                     /\ sessions[u].revoked => sessions'[u].revoked
      BY <2>3, Rows DEF IInv, Session
    <3> QED BY <2>3, <3>1, RevokedFrame
  <2>4. CASE Lapse
    BY <2>1, <2>2, <2>4 DEF Lapse
  <2>5. ASSUME NEW c \in Clients, Logout(c)
        PROVE  SessionsFrame
    <3> DEFINE s == clients[c].access
    <3>1. UNCHANGED sessions \/ sessions' = [sessions EXCEPT ![s].revoked = TRUE]
      BY <2>5 DEF Logout
    <3> HIDE DEF s
    <3> QED BY <2>1, <2>3, <3>1
  <2> QED BY <2>1, <2>4, <2>5, GameMovesApart
          DEF CompleteExport, Register, RequestPasswordReset, SendAuthEmail, vars, sessionVars,
              accountVars
<1>3. \A d \in Clients : clients'[d].refresh \in {None, clients[d].refresh}
  <2>1. ASSUME NEW c \in Clients, Logout(c)
        PROVE  \A d \in Clients : clients'[d].refresh \in {None, clients[d].refresh}
    BY <2>1 DEF Logout, IInv, TypeInv
  <2>2. UNCHANGED clients \/ \E c \in Clients : Logout(c)
    BY GameMovesApart
       DEF Lapse, CompleteExport, Register, RequestPasswordReset, SendAuthEmail, vars, sessionVars
  <2> QED BY <2>1, <2>2
<1>4. \A d \in Clients : ClientKeeps(d)
  BY <1>1, <1>3 DEF ClientKeeps, Waits, Refreshing
<1>5. \A q \in Requests : Descends(requests[q], requests'[q])
  BY <1>1 DEF Descends
<1>6. AppsKeepTheirSession'
  BY <1>1 DEF AppsInv, AppsKeepTheirSession
<1> QED BY <1>1, <1>2, <1>4, <1>5, <1>6, NothingBegins DEF AppsInv

\* The refresh of a client ends, or goes on to its rotation.
LEMMA RefreshEndsApart ==
  ASSUME IInv, RecordsInv, AppsInv, IInv', RecordsInv', NEW r \in Requests,
         Rotate(r) \/ AnswerArrives(r) \/ AnswerLost(r) \/ RefreshFails(r) \/ ReuseCommit(r)
  PROVE  AppsInv'
<1>1. stopped' = stopped
  BY DEF Rotate, AnswerArrives, AnswerLost, RefreshFails, ReuseCommit
<1>2. SessionsFrame
  <2>1. CASE UNCHANGED sessions
    BY <2>1, SameFrame
  <2>2. CASE ReuseCommit(r)
    <3> DEFINE scope == requests[r].scope
    <3>1. sessions' = [s \in DOMAIN sessions |->
                        [sessions[s] EXCEPT !.revoked = @ \/ s \in scope]]
      BY <2>2 DEF ReuseCommit
    <3> HIDE DEF scope
    <3>2. \A u \in DOMAIN sessions : /\ sessions'[u].family = sessions[u].family
                                     /\ sessions[u].revoked => sessions'[u].revoked
      BY <3>1, Rows DEF IInv, Session
    <3> QED BY <3>1, <3>2, RevokedFrame
  <2> QED BY <2>1, <2>2 DEF Rotate, AnswerArrives, AnswerLost, RefreshFails, accountVars
<1>3. CASE Rotate(r)
  <2> DEFINE x == [requests[r] EXCEPT !.step = "rotating"]
  <2>1. /\ requests[r].step = "refresh"
        /\ requests' = [requests EXCEPT ![r] = x] /\ UNCHANGED <<clients, bereft>>
    BY <1>3 DEF Rotate, Continue
  <2>2. /\ x.step = "rotating" /\ x.client = requests[r].client
        /\ x.session = requests[r].session
    BY <2>1 DEF IInv, RequestInv, Shape
  <2> HIDE DEF x
  <2>3. Descends(requests[r], x) /\ Rotates(x)
    BY <2>1, <2>2 DEF Descends, Rotates, Reuses
  <2>4. \A q \in Requests : Descends(requests[q], requests'[q])
    BY <2>1, <2>3, OneDescends
  <2>5. \A d \in Clients : ClientKeeps(d)
    BY <2>1, <2>2, <2>3, WaitStays DEF ClientKeeps
  <2>6. AppsKeepTheirSession'
    BY <1>1, <2>1 DEF AppsInv, AppsKeepTheirSession
  <2> QED BY <1>1, <1>2, <2>4, <2>5, <2>6, NothingBegins DEF AppsInv
<1>4. CASE ~Rotate(r)
  <2>1. requests' = [requests EXCEPT ![r] = Idle]
    BY <1>4 DEF AnswerArrives, AnswerLost, RefreshFails, ReuseCommit, Continue
  <2>2. \A q \in Requests : requests'[q] = IF q = r THEN Idle ELSE requests[q]
    BY <2>1 DEF IInv, TypeInv
  <2>3. \A q \in Requests : Descends(requests[q], requests'[q])
    BY <2>1, IdleAloof, OneDescends DEF Descends
  <2>4. ASSUME NEW d \in Clients
        PROVE  ClientKeeps(d)
    <3>1. ASSUME d \in Apps, requests[r].client = d, clients' = Refused(requests[r].client)
          PROVE  ClientKeeps(d)
      BY <3>1 DEF ClientKeeps, Refused
    <3>2. ASSUME requests[r].client # d
          PROVE  Waits(d) => Waits(d)'
      BY <2>2, <3>2 DEF Waits, Refreshing
    <3>3. CASE AnswerArrives(r)
      <4>1. CASE requests[r].client = d
        <5>1. /\ requests[r].step = "answer" /\ requests[r].session = clients'[d].refresh
              /\ requests'[r] = Idle
          BY <2>2, <3>3, <4>1 DEF AnswerArrives, IInv, TypeInv
        <5> QED BY <4>1, <5>1 DEF ClientKeeps, Answered
      <4>2. CASE requests[r].client # d
        <5>1. clients'[d] = clients[d]
          BY <3>3, <4>2 DEF AnswerArrives, IInv, TypeInv
        <5> QED BY <3>2, <4>2, <5>1 DEF ClientKeeps
      <4> QED BY <4>1, <4>2
    <3>4. CASE clients' = Refused(requests[r].client)
      <4>1. CASE requests[r].client = d /\ d \in Apps
        BY <3>1, <3>4, <4>1
      <4>2. CASE requests[r].client # d \/ d \notin Apps
        <5>1. clients'[d].refresh = clients[d].refresh
          BY <3>4, <4>2 DEF Refused
        <5> QED BY <3>2, <4>2, <5>1 DEF ClientKeeps
      <4> QED BY <4>1, <4>2
    <3>5. CASE AnswerLost(r) /\ UNCHANGED clients
      <4>1. CASE requests[r].login
        <5>1. ~Refreshing(r)
          BY <3>5, <4>1 DEF AnswerLost, Refreshing
        <5> QED BY <2>1, <3>5, <5>1, WaitStays DEF ClientKeeps
      <4>2. CASE ~requests[r].login
        BY <3>4, <3>5, <4>2 DEF AnswerLost
      <4> QED BY <4>1, <4>2
    <3>6. AnswerArrives(r) \/ clients' = Refused(requests[r].client)
          \/ (AnswerLost(r) /\ UNCHANGED clients)
      BY <1>4 DEF AnswerLost, RefreshFails, ReuseCommit
    <3> QED BY <3>3, <3>4, <3>5, <3>6
  <2>5. AppsKeepTheirSession'
    <3>1. CASE UNCHANGED bereft
      BY <1>1, <3>1 DEF AppsInv, AppsKeepTheirSession
    <3>2. CASE ReuseCommit(r) /\ requests[r].scope \cap Active # {}
      <4>1. /\ bereft' = bereft \cup ({requests[r].client} \ {None}) /\ Reuses(requests[r])
        BY <3>2 DEF ReuseCommit, Reuses
      <4>2. requests[r].client \notin Apps \ stopped
        BY <3>2, <4>1 DEF AppsInv, Safe
      <4> QED BY <1>1, <4>1, <4>2 DEF AppsInv, AppsKeepTheirSession
    <3> QED BY <1>4, <3>1, <3>2 DEF AnswerArrives, AnswerLost, RefreshFails, ReuseCommit
  <2> QED BY <1>1, <1>2, <2>3, <2>4, <2>5, NothingBegins DEF AppsInv
<1> QED BY <1>3, <1>4

LEMMA ClientStopsApart ==
  ASSUME IInv, RecordsInv, AppsInv, IInv', RecordsInv', NEW c \in Clients, ClientStops(c)
  PROVE  AppsInv'
<1> DEFINE awaited(p) == /\ Refreshing(p) \/ requests[p].step \in {"verified", "answer"}
                         /\ requests[p].client = c
<1>1. /\ UNCHANGED <<sessions, bereft>> /\ clients' = [clients EXCEPT ![c].access = None]
      /\ stopped' = IF \E p \in Requests : Refreshing(p) /\ awaited(p)
                    THEN stopped \cup {c} ELSE stopped
  BY DEF ClientStops, accountVars
<1>2. requests' = [p \in Requests |->
        IF ~awaited(p) THEN requests[p]
        ELSE IF requests[p].step = "answer" THEN Idle
        ELSE [requests[p] EXCEPT !.client = None]]
  BY DEF ClientStops
<1>3. SessionsFrame /\ stopped \subseteq stopped'
  BY <1>1, SameFrame
<1>4. ASSUME NEW q \in Requests
      PROVE  Descends(requests[q], requests'[q])
  BY ClientStopped, IdleAloof DEF Descends, Aloof, Rotates, Carries, Reuses
<1>5. ASSUME NEW d \in Clients
      PROVE  ClientKeeps(d)
  <2>1. clients'[d].refresh = clients[d].refresh
    BY <1>1 DEF IInv, TypeInv
  <2>2. ASSUME d \in Apps \ stopped', Waits(d)
        PROVE  Waits(d)'
    <3>1. PICK q \in Requests : Refreshing(q) /\ requests[q].client = d
      BY <2>2 DEF Waits
    <3>2. CASE d = c
      BY <1>1, <2>2, <3>1, <3>2
    <3>3. CASE d # c
      <4>1. requests'[q] = requests[q]
        BY <1>2, <3>1, <3>3
      <4> QED BY <3>1, <4>1 DEF Waits, Refreshing
    <3> QED BY <3>2, <3>3
  <2> QED BY <2>1, <2>2 DEF ClientKeeps
<1>6. AppsKeepTheirSession'
  BY <1>1, <1>3 DEF AppsInv, AppsKeepTheirSession
<1> QED BY <1>3, <1>4, <1>5, <1>6, NothingBegins DEF AppsInv

\* A refresh begins.  If its token was used before, no session of an app that has not been
\* stopped is in the scope; else it is the one refresh of its sign-in.
LEMMA RefreshReadApart ==
  ASSUME IInv, RecordsInv, AppsInv, NEW r \in Requests, NEW c \in Clients, RefreshRead(r, c)
  PROVE  AppsInv'
<1> DEFINE reuse == [step |-> "revoking", effect |-> "reuse", client |-> c,
                     scope |-> {a \in Active : sessions[a].family
                                                 = sessions[clients[c].refresh].family}]
           refresh == [step |-> "refresh", client |-> c, session |-> clients[c].refresh,
                       since |-> signOuts]
           x == IF sessions[clients[c].refresh].revoked THEN reuse ELSE refresh
<1>1. PICK s : s = clients[c].refresh
  OBVIOUS
<1>2. /\ SingleFlight(c) /\ s # None /\ requests[r] = Idle
      /\ requests' = [requests EXCEPT ![r] = x]
      /\ UNCHANGED <<sessions, clients, stopped, bereft>>
  BY <1>1, Rows DEF RefreshRead, Begin, accountVars, IInv, None
<1>3. s \in DOMAIN sessions /\ Holder(c, s)
  BY <1>1, <1>2, Referenced DEF Holder
<1>4. /\ x.client = c /\ x.step # "answer" /\ (Rotates(x) \/ Reuses(x)) /\ ~(Rotates(x) /\ Reuses(x))
      /\ Rotates(x) => x.session = s
      /\ Reuses(x) => sessions[s].revoked /\ x.scope = {a \in Active : Kin(a, s)}
  BY <1>1 DEF Rotates, Reuses, Kin
<1> HIDE DEF x
<1>5. \A q \in Requests : requests'[q] = IF q = r THEN x ELSE requests[q]
  BY <1>2 DEF IInv, TypeInv
<1>6. /\ ~Rotates(requests[r]) /\ ~Carries(requests[r]) /\ ~Reuses(requests[r])
      /\ requests[r].step # "answer" /\ ~Refreshing(r)
  BY <1>2, IdleAloof DEF Rotates, Carries, Reuses, Refreshing
<1>7. \A v, u : Kin(v, u)' <=> Kin(v, u)
  BY <1>2 DEF Kin
<1>8. Active' = Active
  BY <1>2 DEF Active
<1>9. ASSUME NEW d \in Clients, NEW u, Holder(d, u)'
      PROVE  Holder(d, u)
  <2>1. CASE u # None /\ clients'[d].refresh = u
    BY <1>2, <2>1 DEF Holder
  <2>2. ASSUME NEW q \in Requests, Carries(requests'[q]), requests'[q].client = d,
               requests'[q].session = u
        PROVE  Holder(d, u)
    <3>1. CASE q = r
      <4>1. Rotates(x) /\ d = c /\ u = s
        BY <1>4, <1>5, <2>2, <3>1 DEF Carries
      <4> QED BY <1>3, <4>1
    <3>2. CASE q # r
      BY <1>5, <2>2, <3>2 DEF Holder
    <3> QED BY <3>1, <3>2
  <2> QED BY <1>9, <2>1, <2>2 DEF Holder
<1>10. Owned'
  BY <1>2, <1>7, <1>9 DEF AppsInv, Owned
<1>11. Fresh'
  <2> SUFFICES ASSUME NEW q \in Requests, requests'[q].step = "answer", requests'[q].login
               PROVE  /\ \A d \in Clients : clients'[d].refresh # None =>
                           ~Kin(clients[d].refresh, requests[q].session)'
                      /\ \A p \in Requests \ {q} : Carries(requests'[p]) =>
                           ~Kin(requests[p].session, requests[q].session)'
    BY DEF Fresh
  <2>1. q # r /\ requests'[q] = requests[q]
    BY <1>4, <1>5
  <2>2. /\ \A d \in Clients : clients[d].refresh # None =>
             ~Kin(clients[d].refresh, requests[q].session)
        /\ \A p \in Requests \ {q} : Carries(requests[p]) =>
             ~Kin(requests[p].session, requests[q].session)
    BY <2>1 DEF AppsInv, Fresh
  <2>3. ASSUME NEW p \in Requests \ {q}, Carries(requests'[p])
        PROVE  ~Kin(requests'[p].session, requests[q].session)
    <3>1. CASE p = r
      BY <1>1, <1>2, <1>4, <1>5, <2>2, <2>3, <3>1 DEF Carries
    <3>2. CASE p # r
      BY <1>5, <2>2, <2>3, <3>2
    <3> QED BY <3>1, <3>2
  <2> QED BY <1>2, <2>1, <2>2, <2>3 DEF Kin
<1>12. ASSUME NEW d \in Apps \ stopped
       PROVE  Safe(d)'
  <2>1. Safe(d) /\ d \in Clients /\ d # None
    BY SessionsAssumption DEF AppsInv, Clients
  <2>2. \A u : Sole(u)' <=> Sole(u)
    BY <1>7, <1>8 DEF Sole
  <2>3. d = c => ~Waits(d)
    BY <1>2 DEF SingleFlight, Waits
  <2>4. ASSUME NEW u, Alone(u), ~(Rotates(x) /\ Kin(s, u))
        PROVE  Alone(u)'
    <3> SUFFICES ASSUME NEW q \in Requests, Rotates(requests'[q])
                 PROVE  ~Kin(requests[q].session, u)'
      BY DEF Alone
    <3>1. CASE q = r
      BY <1>2, <1>4, <1>5, <2>4, <3>1 DEF Kin
    <3>2. CASE q # r
      BY <1>2, <1>5, <2>4, <3>2 DEF Kin, Alone
    <3> QED BY <3>1, <3>2
  <2>5. ASSUME NEW u \in DOMAIN sessions, Holder(d, u), d # c
        PROVE  ~Kin(s, u)
    BY <1>3, <2>1, <2>5 DEF AppsInv, Owned
  <2>6. ASSUME clients'[d].refresh # None, ~Waits(d)'
        PROVE  Sole(clients[d].refresh)' /\ Alone(clients[d].refresh)'
    <3>1. PICK u \in DOMAIN sessions : u = clients[d].refresh /\ u = clients'[d].refresh
      BY <1>2, <2>1, <2>6, Referenced
    <3>2. Waits(c)'
      <4>1. Refreshing(r)' /\ requests'[r].client = c
        BY <1>4, <1>5 DEF Refreshing, Rotates, Reuses
      <4> QED BY <4>1 DEF Waits
    <3>3. d # c /\ ~Waits(d)
      <4>1. Waits(d) => Waits(d)'
        BY <1>5, <1>6 DEF Waits, Refreshing
      <4> QED BY <2>6, <3>2, <4>1
    <3>4. Sole(u) /\ Alone(u) /\ ~Kin(s, u)
      <4>1. Holder(d, u)
        BY <1>2, <2>6, <3>1 DEF Holder
      <4> QED BY <1>2, <2>1, <2>5, <2>6, <3>1, <3>3, <4>1 DEF Safe
    <3>5. Sole(u)' /\ Alone(u)'
      BY <2>2, <2>4, <3>4
    <3> QED BY <3>1, <3>5
  <2>7. ASSUME NEW q \in Requests, requests'[q].client = d, Rotates(requests'[q])
        PROVE  /\ Sole(requests[q].session)'
               /\ \A p \in Requests :
                    Rotates(requests'[p]) /\ Kin(requests[p].session, requests[q].session)' => p = q
    <3>1. PICK u : u = requests'[q].session
      OBVIOUS
    <3>2. CASE q = r
      <4>1. d = c /\ u = s
        BY <1>4, <1>5, <2>7, <3>1, <3>2
      <4>2. Sole(s) /\ Alone(s)
        BY <1>1, <1>2, <2>1, <2>3, <4>1 DEF Safe
      <4>3. ASSUME NEW p \in Requests, Rotates(requests'[p]), p # q
            PROVE  ~Kin(requests[p].session, s)'
        BY <1>2, <1>5, <3>2, <4>2, <4>3 DEF Kin, Alone
      <4>4. Sole(u)'
        BY <2>2, <4>1, <4>2
      <4> QED BY <3>1, <4>1, <4>3, <4>4 DEF Kin
    <3>3. CASE q # r
      <4>1. requests'[q] = requests[q] /\ Rotates(requests[q]) /\ u \in DOMAIN sessions
        BY <1>5, <2>7, <3>1, <3>3, Referenced DEF Carries
      <4>2. Sole(u) /\ \A p \in Requests : Rotates(requests[p]) /\ Kin(requests[p].session, u) => p = q
        BY <2>1, <2>7, <3>1, <4>1 DEF Safe
      <4>3. d # c
        <5>1. Waits(d)
          BY <2>7, <4>1 DEF Waits, Refreshing, Rotates
        <5> QED BY <2>3, <5>1
      <4>4. ~Kin(s, u)
        <5>1. Holder(d, u)
          BY <2>7, <3>1, <4>1 DEF Holder, Carries
        <5> QED BY <2>5, <4>1, <4>3, <5>1
      <4>5. ASSUME NEW p \in Requests, Rotates(requests'[p]), Kin(requests[p].session, u)'
            PROVE  p = q
        <5>1. CASE p = r
          BY <1>2, <1>4, <1>5, <4>4, <4>5, <5>1 DEF Kin
        <5>2. CASE p # r
          BY <1>2, <1>5, <4>2, <4>5, <5>2 DEF Kin
        <5> QED BY <5>1, <5>2
      <4>6. Sole(u)'
        BY <2>2, <4>2
      <4> QED BY <3>1, <4>5, <4>6 DEF Kin
    <3> QED BY <3>2, <3>3
  <2>8. ASSUME NEW q \in Requests, requests'[q].client = d, requests'[q].step = "answer"
        PROVE  Sole(requests[q].session)' /\ Alone(requests[q].session)'
    <3>1. q # r /\ requests'[q] = requests[q] /\ Carries(requests[q])
      BY <1>4, <1>5, <2>8 DEF Carries
    <3>2. PICK u \in DOMAIN sessions : u = requests[q].session /\ u = requests'[q].session
      BY <3>1, Referenced
    <3>3. Sole(u) /\ Alone(u) /\ Holder(d, u)
      BY <2>1, <2>8, <3>1, <3>2 DEF Safe, Holder
    <3>4. ~Kin(s, u)
      <4>1. CASE d # c
        BY <2>5, <3>3, <4>1
      <4>2. CASE d = c /\ ~requests[q].login
        <5>1. Waits(d)
          BY <2>8, <3>1, <4>2 DEF Waits, Refreshing
        <5> QED BY <2>3, <4>2, <5>1
      <4>3. CASE requests[q].login
        BY <1>1, <1>2, <2>8, <3>1, <3>2, <4>3 DEF AppsInv, Fresh
      <4> QED BY <4>1, <4>2, <4>3
    <3>5. Sole(u)' /\ Alone(u)'
      BY <2>2, <2>4, <3>3, <3>4
    <3> QED BY <3>2, <3>5
  <2>9. ASSUME NEW q \in Requests, requests'[q].client = d, Reuses(requests'[q])
        PROVE  requests'[q].scope \cap Active' = {}
    <3>1. CASE q = r
      <4>1. d = c /\ sessions[s].revoked /\ requests'[q].scope = {a \in Active : Kin(a, s)}
        BY <1>4, <1>5, <2>9, <3>1
      <4>2. Sole(s)
        BY <1>1, <1>2, <2>1, <2>3, <4>1 DEF Safe
      <4> QED BY <1>8, <4>1, <4>2 DEF Sole, Active
    <3>2. CASE q # r
      BY <1>5, <1>8, <2>1, <2>9, <3>2 DEF Safe
    <3> QED BY <3>1, <3>2
  <2> QED BY <2>6, <2>7, <2>8, <2>9 DEF Safe
<1>13. AppsKeepTheirSession' /\ stopped' = stopped
  BY <1>2 DEF AppsInv, AppsKeepTheirSession
<1> QED BY <1>10, <1>11, <1>12, <1>13 DEF AppsInv

\* The row of a new session, and the answer with it.
LEMMA InsertedRow ==
  ASSUME IInv, NEW old, NEW new, old \in Seq(Session), new \in Session,
         sessions' = Append(old, new), Len(old) = Len(sessions),
         \A s \in DOMAIN sessions :
           old[s].family = sessions[s].family /\ (sessions[s].revoked => old[s].revoked),
         NEW n, n = Len(sessions) + 1
  PROVE  /\ n \notin DOMAIN sessions /\ DOMAIN sessions' = DOMAIN sessions \cup {n}
         /\ \A s \in DOMAIN sessions : sessions'[s] = old[s]
         /\ \A s \in DOMAIN sessions : sessions'[s].family = sessions[s].family
         /\ sessions'[n] = new /\ Active' \subseteq Active \cup {n}
<1>1. /\ n \in Nat /\ DOMAIN sessions = 1..(n - 1) /\ Len(sessions') = n
      /\ DOMAIN sessions' = 1..n
      /\ sessions'[n] = new /\ \A s \in 1..(n - 1) : sessions'[s] = old[s]
  BY Rows, AppendProperties, LenProperties DEF IInv, TypeInv
<1>2. n \notin DOMAIN sessions /\ DOMAIN sessions' = DOMAIN sessions \cup {n}
  BY <1>1
<1>3. \A s \in DOMAIN sessions : /\ sessions'[s] = old[s]
                                 /\ sessions'[s].family = sessions[s].family
                                 /\ sessions[s].revoked => sessions'[s].revoked
  BY <1>1
<1> QED BY <1>1, <1>2, <1>3 DEF Active

LEMMA AnswerIs ==
  ASSUME IInv, NEW r \in Requests, requests[r].step \in {"verified", "rotating"},
         NEW s, NEW login, Answer(r, s, login)
  PROVE  \E x : /\ \A q \in Requests : requests'[q] = IF q = r THEN x ELSE requests[q]
                /\ \/ Aloof(x) /\ x.step # "answer" /\ requests[r].client = None
                   \/ /\ x.step = "answer" /\ x.client = requests[r].client /\ x.session = s
                      /\ x.login = login /\ requests[r].client # None
<1>1. CASE requests[r].client = None
  <2>1. requests' = [requests EXCEPT ![r] = Idle]
    BY <1>1 DEF Answer, Continue
  <2>2. \A q \in Requests : requests'[q] = IF q = r THEN Idle ELSE requests[q]
    BY <2>1 DEF IInv, TypeInv
  <2> QED BY <1>1, <2>2, IdleAloof
<1>2. CASE requests[r].client # None
  <2> DEFINE x == [step |-> "answer", client |-> requests[r].client, session |-> s,
                   login |-> login]
  <2>1. requests' = [requests EXCEPT ![r] = x]
    BY <1>2 DEF Answer, Continue
  <2>2. x.step = "answer" /\ x.client = requests[r].client /\ x.session = s /\ x.login = login
    OBVIOUS
  <2> HIDE DEF x
  <2>3. \A q \in Requests : requests'[q] = IF q = r THEN x ELSE requests[q]
    BY <2>1 DEF IInv, TypeInv
  <2> QED BY <1>2, <2>2, <2>3
<1> QED BY <1>1, <1>2

\* A login begins a family of its own.
LEMMA CreateSessionApart ==
  ASSUME IInv, RecordsInv, AppsInv, NEW r \in Requests, CreateSession(r)
  PROVE  AppsInv'
<1> DEFINE new == [family |-> Len(sessions) + 1, revoked |-> FALSE, lapsed |-> FALSE,
                   since |-> requests[r].since, born |-> signOuts, late |-> 0]
<1>1. PICK n : n = Len(sessions) + 1
  OBVIOUS
<1>2. /\ requests[r].step = "verified" /\ sessions' = Append(sessions, new)
      /\ UNCHANGED <<clients, stopped, bereft>> /\ Answer(r, n, TRUE)
  BY <1>1 DEF CreateSession, NewSession
<1>3. new \in Session /\ new.family = n /\ sessions \in Seq(Session) /\ n \in Nat
  <2>1. Len(sessions) \in Nat /\ signOuts \in Nat /\ sessions \in Seq(Session)
    BY Rows DEF IInv, TypeInv
  <2>2. requests[r].since \in Nat
    BY <1>2 DEF IInv, RequestInv, Shape
  <2> QED BY <1>1, <2>1, <2>2 DEF Session
<1> HIDE DEF new
<1>4. /\ n \notin DOMAIN sessions /\ DOMAIN sessions' = DOMAIN sessions \cup {n}
      /\ \A s \in DOMAIN sessions : sessions'[s] = sessions[s]
      /\ sessions'[n] = new /\ Active' \subseteq Active \cup {n}
  BY <1>1, <1>2, <1>3, InsertedRow
<1>5. PICK x : /\ \A q \in Requests : requests'[q] = IF q = r THEN x ELSE requests[q]
               /\ \/ Aloof(x) /\ x.step # "answer" /\ requests[r].client = None
                  \/ /\ x.step = "answer" /\ x.client = requests[r].client /\ x.session = n
                     /\ x.login = TRUE /\ requests[r].client # None
  <2>1. PICK login : login = TRUE
    OBVIOUS
  <2>2. requests[r].step \in {"verified", "rotating"} /\ Answer(r, n, login)
    BY <1>2, <2>1
  <2>3. \E x : /\ \A q \in Requests : requests'[q] = IF q = r THEN x ELSE requests[q]
               /\ \/ Aloof(x) /\ x.step # "answer" /\ requests[r].client = None
                  \/ /\ x.step = "answer" /\ x.client = requests[r].client /\ x.session = n
                     /\ x.login = login /\ requests[r].client # None
    BY <2>2, AnswerIs
  <2> QED BY <2>1, <2>3
<1>6. /\ \A s, u \in DOMAIN sessions : Kin(s, u)' <=> Kin(s, u)
      /\ \A s \in DOMAIN sessions : ~Kin(s, n)' /\ ~Kin(n, s)'
  <2>1. \A s \in DOMAIN sessions : sessions[s].family # n
    BY <1>1, <1>3, Rows DEF IInv, FamiliesInv, Session
  <2> QED BY <1>3, <1>4, <2>1 DEF Kin
<1>7. ~Rotates(x) /\ ~Reuses(x) /\ (Carries(x) <=> x.step = "answer")
      /\ ~Refreshing(r) /\ ~Carries(requests[r]) /\ ~Reuses(requests[r])
  BY <1>2, <1>5 DEF Aloof, Rotates, Reuses, Carries, Refreshing
<1>8. ASSUME NEW q \in Requests, Carries(requests'[q])
      PROVE  \/ q = r /\ x.step = "answer" /\ requests'[q] = x /\ x.session = n
             \/ q # r /\ requests'[q] = requests[q] /\ requests[q].session \in DOMAIN sessions
  BY <1>5, <1>7, <1>8, Referenced DEF Aloof
<1>9. ASSUME NEW d \in Clients, NEW s, Holder(d, s)'
      PROVE  \/ Holder(d, s) /\ s \in DOMAIN sessions
             \/ s = n /\ d = requests[r].client
  <2>1. CASE s # None /\ clients'[d].refresh = s
    BY <1>2, <2>1, Referenced DEF Holder
  <2>2. ASSUME NEW q \in Requests, Carries(requests'[q]), requests'[q].client = d,
               requests'[q].session = s
        PROVE  \/ Holder(d, s) /\ s \in DOMAIN sessions
               \/ s = n /\ d = requests[r].client
    BY <1>5, <1>8, <2>2 DEF Holder, Aloof
  <2> QED BY <1>9, <2>1, <2>2 DEF Holder
<1>10. Owned'
  <2> SUFFICES ASSUME NEW c \in Clients, NEW d \in Clients, NEW s \in DOMAIN sessions',
                      NEW u \in DOMAIN sessions', Holder(c, s)', Holder(d, u)', Kin(s, u)'
               PROVE  c = d
    BY DEF Owned
  <2> QED BY <1>6, <1>9 DEF AppsInv, Owned
<1>11. Fresh'
  <2> SUFFICES ASSUME NEW q \in Requests, requests'[q].step = "answer", requests'[q].login
               PROVE  /\ \A d \in Clients : clients'[d].refresh # None =>
                           ~Kin(clients[d].refresh, requests[q].session)'
                      /\ \A p \in Requests \ {q} : Carries(requests'[p]) =>
                           ~Kin(requests[p].session, requests[q].session)'
    BY DEF Fresh
  <2>1. \A d \in Clients : clients'[d].refresh # None =>
          clients'[d].refresh = clients[d].refresh /\ clients[d].refresh \in DOMAIN sessions
    BY <1>2, Referenced
  <2>2. CASE q = r
    <3>1. requests'[q].session = n
      BY <1>5, <2>2
    <3>2. \A p \in Requests \ {q} : Carries(requests'[p]) => requests'[p].session \in DOMAIN sessions
      BY <1>8, <2>2
    <3> QED BY <1>6, <2>1, <3>1, <3>2 DEF Kin
  <2>3. CASE q # r
    <3>1. requests'[q] = requests[q] /\ requests[q].session \in DOMAIN sessions
      BY <1>5, <2>3, Referenced DEF Carries
    <3>2. \A d \in Clients : clients'[d].refresh # None =>
            ~Kin(clients[d].refresh, requests[q].session)'
      BY <1>6, <2>1, <3>1 DEF AppsInv, Fresh, Kin
    <3>3. ASSUME NEW p \in Requests \ {q}, Carries(requests'[p])
          PROVE  ~Kin(requests[p].session, requests[q].session)'
      BY <1>6, <1>8, <3>1, <3>3 DEF AppsInv, Fresh, Kin
    <3> QED BY <3>2, <3>3
  <2> QED BY <2>2, <2>3
<1>12. ASSUME NEW d \in Apps \ stopped
       PROVE  Safe(d)'
  <2>1. Safe(d) /\ d \in Clients
    BY DEF AppsInv, Clients
  <2>2. ASSUME NEW u \in DOMAIN sessions, Sole(u)
        PROVE  Sole(u)'
    <3>1. Active \subseteq DOMAIN sessions
      BY DEF Active
    <3> QED BY <1>4, <1>6, <2>2, <3>1 DEF Sole
  <2>3. ASSUME NEW u \in DOMAIN sessions, Alone(u)
        PROVE  Alone(u)'
    <3> SUFFICES ASSUME NEW q \in Requests, Rotates(requests'[q])
                 PROVE  ~Kin(requests[q].session, u)'
      BY DEF Alone
    <3>1. requests'[q] = requests[q] /\ requests[q].session \in DOMAIN sessions
      BY <1>5, <1>7, Referenced DEF Carries
    <3> QED BY <1>6, <2>3, <3>1 DEF Alone, Kin
  <2>4. ASSUME clients'[d].refresh # None, ~Waits(d)'
        PROVE  Sole(clients[d].refresh)' /\ Alone(clients[d].refresh)'
    <3>1. PICK u \in DOMAIN sessions : u = clients[d].refresh /\ u = clients'[d].refresh
      BY <1>2, <2>1, <2>4, Referenced
    <3>2. ~Waits(d)
      BY <1>5, <1>7, <2>4 DEF Waits, Refreshing
    <3>3. Sole(u) /\ Alone(u)
      BY <1>2, <2>1, <2>4, <3>1, <3>2 DEF Safe
    <3>4. Sole(u)' /\ Alone(u)'
      BY <2>2, <2>3, <3>3
    <3> QED BY <3>1, <3>4
  <2>5. ASSUME NEW q \in Requests, requests'[q].client = d, Rotates(requests'[q])
        PROVE  /\ Sole(requests[q].session)'
               /\ \A p \in Requests :
                    Rotates(requests'[p]) /\ Kin(requests[p].session, requests[q].session)' => p = q
    <3>1. q # r /\ requests'[q] = requests[q]
      BY <1>5, <1>7, <2>5
    <3>2. PICK u \in DOMAIN sessions : u = requests[q].session /\ u = requests'[q].session
      BY <2>5, <3>1, Referenced DEF Carries
    <3>3. Sole(u) /\ \A p \in Requests : Rotates(requests[p]) /\ Kin(requests[p].session, u) => p = q
      BY <2>1, <2>5, <3>1, <3>2 DEF Safe
    <3>4. Sole(u)'
      BY <2>2, <3>3
    <3>5. ASSUME NEW p \in Requests, Rotates(requests'[p]), Kin(requests[p].session, u)'
          PROVE  p = q
      <4>1. requests'[p] = requests[p] /\ requests[p].session \in DOMAIN sessions
        BY <1>5, <1>7, <3>5, Referenced DEF Carries
      <4> QED BY <1>6, <3>3, <3>5, <4>1 DEF Kin
    <3> QED BY <3>2, <3>4, <3>5 DEF Kin
  <2>6. ASSUME NEW q \in Requests, requests'[q].client = d, requests'[q].step = "answer"
        PROVE  Sole(requests[q].session)' /\ Alone(requests[q].session)'
    <3>1. CASE q = r
      <4>1. requests'[q].session = n
        BY <1>5, <2>6, <3>1
      <4>2. Sole(n)'
        <5>1. Active \subseteq DOMAIN sessions
          BY DEF Active
        <5> QED BY <1>4, <1>6, <5>1 DEF Sole
      <4>3. Alone(n)'
        <5> SUFFICES ASSUME NEW p \in Requests, Rotates(requests'[p])
                     PROVE  ~Kin(requests[p].session, n)'
          BY DEF Alone
        <5>1. requests'[p].session \in DOMAIN sessions
          BY <1>5, <1>7, Referenced DEF Carries
        <5> QED BY <1>6, <5>1 DEF Kin
      <4> QED BY <4>1, <4>2, <4>3
    <3>2. CASE q # r
      <4>1. requests'[q] = requests[q]
        BY <1>5, <3>2
      <4>2. PICK u \in DOMAIN sessions : u = requests[q].session /\ u = requests'[q].session
        BY <2>6, <4>1, Referenced DEF Carries
      <4>3. Sole(u) /\ Alone(u)
        BY <2>1, <2>6, <4>1, <4>2 DEF Safe
      <4>4. Sole(u)' /\ Alone(u)'
        BY <2>2, <2>3, <4>3
      <4> QED BY <4>2, <4>4
    <3> QED BY <3>1, <3>2
  <2>7. ASSUME NEW q \in Requests, requests'[q].client = d, Reuses(requests'[q])
        PROVE  requests'[q].scope \cap Active' = {}
    <3>1. requests'[q] = requests[q]
      BY <1>5, <1>7, <2>7
    <3> QED BY <1>4, <2>1, <2>7, <3>1, Referenced DEF Safe
  <2> QED BY <2>4, <2>5, <2>6, <2>7 DEF Safe
<1>13. AppsKeepTheirSession' /\ stopped' = stopped
  BY <1>2 DEF AppsInv, AppsKeepTheirSession
<1> QED BY <1>10, <1>11, <1>12, <1>13 DEF AppsInv

\* A rotation puts the successor in the place of the session it has revoked.
LEMMA RotateCommitApart ==
  ASSUME IInv, RecordsInv, AppsInv, IInv', NEW r \in Requests, RotateCommit(r)
  PROVE  AppsInv'
<1> DEFINE old == [sessions EXCEPT ![requests[r].session].revoked = TRUE]
           new == [sessions[requests[r].session] EXCEPT
                     !.since = requests[r].since, !.born = signOuts, !.late = 0,
                     !.lapsed = FALSE, !.revoked = FALSE]
<1>1. PICK n, s : n = Len(sessions) + 1 /\ s = requests[r].session
  OBVIOUS
<1>2. /\ requests[r].step = "rotating" /\ sessions' = Append(old, new)
      /\ UNCHANGED <<clients, stopped, bereft>> /\ Answer(r, n, FALSE)
  BY <1>1 DEF RotateCommit
<1>3. s \in DOMAIN sessions /\ sessions \in Seq(Session) /\ sessions[s] \in Session
      /\ requests[r].since \in Nat /\ signOuts \in Nat /\ Len(sessions) \in Nat
      /\ DOMAIN sessions = 1..Len(sessions)
  BY <1>1, <1>2, Rows DEF IInv, TypeInv, RequestInv, Shape, Active
<1>4. new \in Session /\ new.family = sessions[s].family /\ ~new.revoked
  BY <1>1, <1>3 DEF Session
<1>5. /\ old \in Seq(Session) /\ Len(old) = Len(sessions) /\ old[s].revoked
      /\ \A u \in DOMAIN sessions : old[u].family = sessions[u].family
                                    /\ (sessions[u].revoked => old[u].revoked)
  <2>1. [sessions[s] EXCEPT !.revoked = TRUE] \in Session
    BY <1>3 DEF Session
  <2>2. old \in [DOMAIN sessions -> Session]
        /\ \A u \in DOMAIN sessions : old[u] = IF u = s
             THEN [sessions[s] EXCEPT !.revoked = TRUE] ELSE sessions[u]
    BY <1>1, <1>3, <2>1, Rows DEF IInv
  <2>3. old \in Seq(Session) /\ Len(old) = Len(sessions)
    BY <1>3, <2>2
  <2> QED BY <1>3, <2>2, <2>3 DEF Session
<1> HIDE DEF old, new
<1>6. /\ n \notin DOMAIN sessions /\ DOMAIN sessions' = DOMAIN sessions \cup {n}
      /\ \A u \in DOMAIN sessions : sessions'[u] = old[u]
      /\ \A u \in DOMAIN sessions : sessions'[u].family = sessions[u].family
      /\ sessions'[n] = new /\ Active' \subseteq Active \cup {n}
  BY <1>1, <1>2, <1>4, <1>5, InsertedRow
<1>7. s \notin Active' /\ n \in Active'
  BY <1>3, <1>4, <1>5, <1>6 DEF Active
<1>8. PICK x : /\ \A q \in Requests : requests'[q] = IF q = r THEN x ELSE requests[q]
               /\ \/ Aloof(x) /\ x.step # "answer" /\ requests[r].client = None
                  \/ /\ x.step = "answer" /\ x.client = requests[r].client /\ x.session = n
                     /\ x.login = FALSE /\ requests[r].client # None
  <2>1. PICK login : login = FALSE
    OBVIOUS
  <2>2. requests[r].step \in {"verified", "rotating"} /\ Answer(r, n, login)
    BY <1>2, <2>1
  <2>3. \E x : /\ \A q \in Requests : requests'[q] = IF q = r THEN x ELSE requests[q]
               /\ \/ Aloof(x) /\ x.step # "answer" /\ requests[r].client = None
                  \/ /\ x.step = "answer" /\ x.client = requests[r].client /\ x.session = n
                     /\ x.login = login /\ requests[r].client # None
    BY <2>2, AnswerIs
  <2> QED BY <2>1, <2>3
<1>9. /\ ~Rotates(x) /\ ~Reuses(x) /\ (Carries(x) <=> x.step = "answer")
      /\ Rotates(requests[r]) /\ Carries(requests[r])
  BY <1>2, <1>8 DEF Aloof, Rotates, Reuses, Carries
\* The successor is of the family of its predecessor.
<1>10. /\ \A v, u \in DOMAIN sessions : Kin(v, u)' <=> Kin(v, u)
       /\ \A u \in DOMAIN sessions : (Kin(u, n)' <=> Kin(u, s)) /\ (Kin(n, u)' <=> Kin(s, u))
       /\ Kin(n, n)'
  BY <1>3, <1>4, <1>6 DEF Kin
<1>11. ASSUME NEW q \in Requests, Carries(requests'[q])
       PROVE  \/ q = r /\ x.step = "answer" /\ requests'[q] = x /\ x.session = n
              \/ q # r /\ requests'[q] = requests[q] /\ requests[q].session \in DOMAIN sessions
  BY <1>8, <1>9, <1>11, Referenced
<1>12. ASSUME NEW d \in Clients, NEW u, Holder(d, u)'
       PROVE  \/ Holder(d, u) /\ u \in DOMAIN sessions
              \/ u = n /\ Holder(d, s)
  <2>1. CASE u # None /\ clients'[d].refresh = u
    BY <1>2, <2>1, Referenced DEF Holder
  <2>2. ASSUME NEW q \in Requests, Carries(requests'[q]), requests'[q].client = d,
               requests'[q].session = u
        PROVE  \/ Holder(d, u) /\ u \in DOMAIN sessions
               \/ u = n /\ Holder(d, s)
    <3>1. CASE q = r
      BY <1>1, <1>8, <1>9, <2>2, <3>1 DEF Holder
    <3>2. CASE q # r
      BY <1>11, <2>2, <3>2 DEF Holder
    <3> QED BY <3>1, <3>2
  <2> QED BY <1>12, <2>1, <2>2 DEF Holder
<1>13. Owned'
  <2> SUFFICES ASSUME NEW c \in Clients, NEW d \in Clients, NEW v \in DOMAIN sessions',
                      NEW u \in DOMAIN sessions', Holder(c, v)', Holder(d, u)', Kin(v, u)'
               PROVE  c = d
    BY DEF Owned
  <2>1. PICK v2 \in DOMAIN sessions : Holder(c, v2) /\ (v2 = v \/ (v = n /\ v2 = s))
    BY <1>3, <1>12
  <2>2. PICK u2 \in DOMAIN sessions : Holder(d, u2) /\ (u2 = u \/ (u = n /\ u2 = s))
    BY <1>3, <1>12
  <2>3. Kin(v2, u2)
    BY <1>10, <2>1, <2>2 DEF Kin
  <2> QED BY <2>1, <2>2, <2>3 DEF AppsInv, Owned
<1>14. Fresh'
  <2> SUFFICES ASSUME NEW q \in Requests, requests'[q].step = "answer", requests'[q].login
               PROVE  /\ \A d \in Clients : clients'[d].refresh # None =>
                           ~Kin(clients[d].refresh, requests[q].session)'
                      /\ \A p \in Requests \ {q} : Carries(requests'[p]) =>
                           ~Kin(requests[p].session, requests[q].session)'
    BY DEF Fresh
  <2>1. q # r /\ requests'[q] = requests[q] /\ requests[q].session \in DOMAIN sessions
    BY <1>8, Referenced DEF Carries
  <2>2. ASSUME NEW d \in Clients, clients'[d].refresh # None
        PROVE  ~Kin(clients[d].refresh, requests[q].session)'
    <3>1. clients'[d].refresh = clients[d].refresh /\ clients[d].refresh \in DOMAIN sessions
      BY <1>2, <2>2, Referenced
    <3> QED BY <1>10, <2>1, <2>2, <3>1 DEF AppsInv, Fresh, Kin
  <2>3. ASSUME NEW p \in Requests \ {q}, Carries(requests'[p])
        PROVE  ~Kin(requests[p].session, requests[q].session)'
    <3>1. CASE p = r
      <4>1. requests'[p].session = n
        BY <1>11, <2>3, <3>1
      <4>2. ~Kin(s, requests[q].session)
        BY <1>1, <1>9, <2>1 DEF AppsInv, Fresh
      <4> QED BY <1>10, <2>1, <4>1, <4>2 DEF Kin
    <3>2. CASE p # r
      BY <1>10, <1>11, <2>1, <2>3, <3>2 DEF AppsInv, Fresh, Kin
    <3> QED BY <3>1, <3>2
  <2> QED BY <2>2, <2>3
<1>15. ASSUME NEW d \in Apps \ stopped
       PROVE  Safe(d)'
  <2>1. Safe(d) /\ d \in Clients
    BY DEF AppsInv, Clients
  <2>2. ASSUME NEW u \in DOMAIN sessions, Sole(u), ~Kin(s, u)
        PROVE  Sole(u)'
    <3>1. Active \subseteq DOMAIN sessions
      BY DEF Active
    <3> QED BY <1>6, <1>10, <2>2, <3>1 DEF Sole
  <2>3. ASSUME NEW u \in DOMAIN sessions, Alone(u)
        PROVE  Alone(u)' /\ ~Kin(s, u)
    <3>1. ASSUME NEW q \in Requests, Rotates(requests'[q])
          PROVE  ~Kin(requests[q].session, u)'
      <4>1. requests'[q] = requests[q] /\ requests[q].session \in DOMAIN sessions
        BY <1>8, <1>9, <3>1, Referenced DEF Carries
      <4> QED BY <1>10, <2>3, <3>1, <4>1 DEF Alone, Kin
    <3>2. ~Kin(s, u)
      BY <1>1, <1>9, <2>3 DEF Alone
    <3> QED BY <3>1, <3>2 DEF Alone
  <2>4. ASSUME clients'[d].refresh # None, ~Waits(d)'
        PROVE  Sole(clients[d].refresh)' /\ Alone(clients[d].refresh)'
    <3>1. PICK u \in DOMAIN sessions : u = clients[d].refresh /\ u = clients'[d].refresh
      BY <1>2, <2>1, <2>4, Referenced
    <3>2. ~Waits(d)
      <4> SUFFICES ASSUME NEW q \in Requests, Refreshing(q), requests[q].client = d
                   PROVE  Refreshing(q)' /\ requests'[q].client = d
        BY <2>4 DEF Waits
      <4>1. CASE q = r
        BY <1>8, <2>1, <4>1, SessionsAssumption DEF Refreshing
      <4>2. CASE q # r
        BY <1>8, <4>2 DEF Refreshing
      <4> QED BY <4>1, <4>2
    <3>3. Sole(u) /\ Alone(u)
      BY <1>2, <2>1, <2>4, <3>1, <3>2 DEF Safe
    <3>4. Sole(u)' /\ Alone(u)'
      BY <2>2, <2>3, <3>3
    <3> QED BY <3>1, <3>4
  <2>5. ASSUME NEW q \in Requests, requests'[q].client = d, Rotates(requests'[q])
        PROVE  /\ Sole(requests[q].session)'
               /\ \A p \in Requests :
                    Rotates(requests'[p]) /\ Kin(requests[p].session, requests[q].session)' => p = q
    <3>1. q # r /\ requests'[q] = requests[q]
      BY <1>8, <1>9, <2>5
    <3>2. PICK u \in DOMAIN sessions : u = requests[q].session /\ u = requests'[q].session
      BY <2>5, <3>1, Referenced DEF Carries
    <3>3. Sole(u) /\ \A p \in Requests : Rotates(requests[p]) /\ Kin(requests[p].session, u) => p = q
      BY <2>1, <2>5, <3>1, <3>2 DEF Safe
    <3>4. Sole(u)'
      BY <1>1, <1>9, <2>2, <3>1, <3>3
    <3>5. ASSUME NEW p \in Requests, Rotates(requests'[p]), Kin(requests[p].session, u)'
          PROVE  p = q
      <4>1. requests'[p] = requests[p] /\ requests[p].session \in DOMAIN sessions
        BY <1>8, <1>9, <3>5, Referenced DEF Carries
      <4> QED BY <1>10, <3>3, <3>5, <4>1 DEF Kin
    <3> QED BY <3>2, <3>4, <3>5 DEF Kin
  <2>6. ASSUME NEW q \in Requests, requests'[q].client = d, requests'[q].step = "answer"
        PROVE  Sole(requests[q].session)' /\ Alone(requests[q].session)'
    <3>1. CASE q = r
      <4>1. requests'[q].session = n /\ requests[r].client = d
        BY <1>8, <2>6, <3>1
      <4>2. Sole(n)'
        BY <1>7 DEF IInv, OneActivePerFamily, Sole, Kin
      <4>3. Alone(n)'
        <5> SUFFICES ASSUME NEW p \in Requests, Rotates(requests'[p])
                     PROVE  ~Kin(requests[p].session, n)'
          BY DEF Alone
        <5>1. p # r /\ requests'[p] = requests[p] /\ requests[p].session \in DOMAIN sessions
          BY <1>8, <1>9, Referenced DEF Carries
        <5>2. ~Kin(requests[p].session, s)
          BY <1>1, <1>9, <2>1, <4>1, <5>1 DEF Safe
        <5> QED BY <1>10, <5>1, <5>2 DEF Kin
      <4> QED BY <4>1, <4>2, <4>3
    <3>2. CASE q # r
      <4>1. requests'[q] = requests[q]
        BY <1>8, <3>2
      <4>2. PICK u \in DOMAIN sessions : u = requests[q].session /\ u = requests'[q].session
        BY <2>6, <4>1, Referenced DEF Carries
      <4>3. Sole(u) /\ Alone(u)
        BY <2>1, <2>6, <4>1, <4>2 DEF Safe
      <4>4. Sole(u)' /\ Alone(u)'
        BY <2>2, <2>3, <4>3
      <4> QED BY <4>2, <4>4
    <3> QED BY <3>1, <3>2
  <2>7. ASSUME NEW q \in Requests, requests'[q].client = d, Reuses(requests'[q])
        PROVE  requests'[q].scope \cap Active' = {}
    <3>1. requests'[q] = requests[q]
      BY <1>8, <1>9, <2>7
    <3> QED BY <1>6, <2>1, <2>7, <3>1, Referenced DEF Safe
  <2> QED BY <2>4, <2>5, <2>6, <2>7 DEF Safe
<1>16. AppsKeepTheirSession' /\ stopped' = stopped
  BY <1>2 DEF AppsInv, AppsKeepTheirSession
<1> QED BY <1>13, <1>14, <1>15, <1>16 DEF AppsInv

LEMMA AppsInitial == Init => AppsInv
<1> SUFFICES ASSUME Init
             PROVE  AppsInv
  OBVIOUS
<1>1. /\ sessions = <<>> /\ bereft = {}
      /\ clients = [c \in Clients |-> [refresh |-> None, access |-> None]]
      /\ requests = [q \in Requests |-> Idle]
  BY DEF Init, SessionsInit
<1>2. \A q \in Requests : ~Carries(requests[q]) /\ ~Rotates(requests[q])
                          /\ ~Reuses(requests[q]) /\ requests[q].step # "answer"
  BY <1>1, IdleAloof DEF Aloof, Carries
<1>3. \A c \in Clients : clients[c].refresh = None
  BY <1>1
<1>4. Owned /\ Fresh
  BY <1>1, <1>2, <1>3 DEF Owned, Fresh
<1>5. \A c \in Apps : Safe(c)
  BY <1>2, <1>3 DEF Safe, Clients
<1> QED BY <1>1, <1>4, <1>5 DEF AppsInv, AppsKeepTheirSession

LEMMA AppsStep == IInv /\ RecordsInv /\ AppsInv /\ [Next]_vars => AppsInv'
<1> SUFFICES ASSUME IInv, RecordsInv, AppsInv, [Next]_vars
             PROVE  AppsInv'
  OBVIOUS
<1>1. IInv' /\ RecordsInv'
  BY Inductive, RecordsStep
<1>2. CASE UNCHANGED vars
  BY <1>1, <1>2, TimeApart
<1>3. CASE Progress
  <2>1. ASSUME NEW r \in Requests, Handling(r)
        PROVE  AppsInv'
    BY <1>1, <2>1, ReadsApart, EndsApart, RefreshEndsApart, CreateSessionApart, RotateCommitApart
       DEF Handling
  <2>2. ASSUME NEW r \in Requests,
               \/ DeletionStarts(r) \/ SavePersonal(r) \/ CompleteDeletion(r)
               \/ NotifyCommit(r, FALSE) \/ \E message \in messages : NotifyRead(r, message)
        PROVE  AppsInv'
    BY <1>1, <2>2, ReadsApart, EndsApart
  <2>3. CASE \/ CompleteExport \/ \E t \in DOMAIN tokens : SendAuthEmail(t)
             \/ \E q \in rescheduling : RescheduleCommit(q)
    BY <1>1, <2>3, TimeApart DEF GameMoves
  <2> QED BY <1>3, <2>1, <2>2, <2>3 DEF Progress
<1>4. CASE Events
  <2>1. ASSUME NEW r \in Requests, Arrivals(r)
        PROVE  AppsInv'
    <3>1. ASSUME NEW t \in DOMAIN tokens, VerifyRead(r, t) \/ ResetRead(r, t)
          PROVE  AppsInv'
      BY <1>1, <3>1, ReadsApart
    <3>2. ASSUME NEW c \in Clients, \/ \E correct \in BOOLEAN : LoginRead(r, c, correct)
                                    \/ \E effect : Authorize(r, c, effect)
          PROVE  AppsInv'
      BY <1>1, <3>2, ReadsApart
    <3>3. ASSUME NEW c \in Clients, RefreshRead(r, c)
          PROVE  AppsInv'
      BY <3>3, RefreshReadApart
    <3>4. CASE AnswerLost(r) \/ Fail(r)
      BY <1>1, <3>4, RefreshEndsApart, ReadsApart
    <3> QED BY <2>1, <3>1, <3>2, <3>3, <3>4 DEF Arrivals
  <2>2. CASE Register \/ RequestPasswordReset \/ Lapse
    BY <1>1, <2>2, TimeApart
  <2>3. ASSUME NEW c \in Clients, ClientStops(c)
        PROVE  AppsInv'
    BY <1>1, <2>3, ClientStopsApart
  <2>4. CASE (\E c \in Clients : Logout(c)) \/ ChangeGame \/ RescheduleRead
    BY <1>1, <2>4, TimeApart DEF GameMoves
  <2>5. ASSUME NEW r \in Requests, NotifyCommit(r, TRUE)
        PROVE  AppsInv'
    BY <1>1, <2>5, EndsApart
  <2> QED BY <1>4, <2>1, <2>2, <2>3, <2>4, <2>5 DEF Events
<1> QED BY <1>2, <1>3, <1>4 DEF Next

\* The reuse detection of refresh (auth.service.ts:190-205) never hits an app for its own
\* doing: for any number of apps, tabs and overlapping requests, _refreshOnce
\* (api_client.dart) and the forgetting of tokens after a failure keep a used token from
\* being presented, unless the app was stopped with a refresh under way.
THEOREM NoAppEndsItsSession == Spec => []AppsKeepTheirSession
<1>1. IInv /\ RecordsInv /\ AppsInv => AppsKeepTheirSession
  BY DEF AppsInv
<1>2. Init => IInv /\ RecordsInv /\ AppsInv
  BY Initial, RecordsInitial, AppsInitial
<1>3. IInv /\ RecordsInv /\ AppsInv /\ [Next]_vars => IInv' /\ RecordsInv' /\ AppsInv'
  BY Inductive, RecordsStep, AppsStep
<1> QED BY <1>1, <1>2, <1>3, PTL DEF Spec
=============================================================================
