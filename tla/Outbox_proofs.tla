---------------------------- MODULE Outbox_proofs ----------------------------
(***************************************************************************)
(* Proofs about Outbox: for any number of events, dispatchers and slots,   *)
(* any limits and any number of failures, a claimed row has one            *)
(* dispatcher, an acknowledged row has its job, and a recorded success has *)
(* its effect.                                                             *)
(***************************************************************************)
EXTENDS Outbox, WellFoundedInduction, TLAPS

\* What the three properties rest on: a dispatcher that has added a job works on
\* an event it has claimed, whose job the queue has or has carried out ...
AddedIsQueued ==
  \A d \in Dispatchers : added[d] =>
    /\ batch[d] # {}
    /\ job[Oldest(batch[d])] # "none" \/ effects[Oldest(batch[d])] > 0

\* ... a slot that is about to report success has had the effect ...
CarriedOut ==
  \A w \in Workers :
    /\ run[w].step # "idle" => run[w].event \in Events
    /\ run[w].step \in {"succeed", "ok"} => effects[run[w].event] > 0

\* ... and a job that may still run has attempts and restarts left.
RunnableWithinLimits ==
  \A e \in Events :
    /\ owner[e] \in Workers => job[e] = "active"
    /\ job[e] \in {"none", "waiting", "active"} =>
         attempts[e] < MaxAttempts /\ stalls[e] <= MaxStalls

IInv ==
  /\ TypeOK /\ AddedIsQueued /\ CarriedOut /\ RunnableWithinLimits
  /\ ClaimedOnce /\ PublishedIsQueued /\ SuccessIsReal

\* Every nonempty set of numbers has a least element.
LEMMA LeastElement ==
  ASSUME NEW S \in SUBSET Nat, S # {}
  PROVE  \E x \in S : \A y \in S : x <= y
<1> DEFINE R == OpToRel(<, Nat)
<1>1. IsWellFoundedOn(R, Nat)
  BY NatLessThanWellFounded
<1>2. \A x, y \in Nat : <<y, x>> \in R <=> y < x
  BY DEF OpToRel
<1>3. PICK x \in S : \A y \in S : ~(<<y, x>> \in R)
  <2> HIDE DEF R
  <2> QED  BY <1>1, WFMin
<1> HIDE DEF R
<1>4. \A y \in S : ~(y < x)
  BY <1>2, <1>3
<1>5. \A y \in S : x <= y
  BY <1>4
<1> QED
  BY <1>5

\* A dispatcher publishes an event of its batch.
LEMMA OldestClaimed ==
  ASSUME NEW S \in SUBSET Events, S # {}
  PROVE  Oldest(S) \in S
<1>1. S \in SUBSET Nat
  BY OutboxAssumption
<1>2. \E e \in S : \A f \in S : e <= f
  BY <1>1, LeastElement
<1> QED
  BY <1>2 DEF Oldest

LEMMA InitInv == Init => IInv
<1> SUFFICES ASSUME Init PROVE IInv
  OBVIOUS
<1> USE OutboxAssumption DEF Init
<1>1. TypeOK
  BY DEF TypeOK, Resting, Steps
<1>2. AddedIsQueued /\ CarriedOut
  BY DEF AddedIsQueued, CarriedOut, Resting
<1>3. RunnableWithinLimits
  BY DEF RunnableWithinLimits
<1>4. ClaimedOnce /\ PublishedIsQueued /\ SuccessIsReal
  BY DEF ClaimedOnce, PublishedIsQueued, SuccessIsReal
<1> QED
  BY <1>1, <1>2, <1>3, <1>4 DEF IInv

\* A new row is nobody's yet.
LEMMA EnqueueKeeps ==
  ASSUME IInv, NEW e \in Events, Enqueue(e)
  PROVE  IInv'
<1>1. TypeOK'
  BY OutboxAssumption DEF IInv, Enqueue, queueVars, handlerVars, TypeOK, Resting, Steps
<1>2. AddedIsQueued'
  BY OutboxAssumption DEF IInv, Enqueue, queueVars, handlerVars, TypeOK, AddedIsQueued,
     SuccessIsReal
<1>3. CarriedOut'
  BY OutboxAssumption DEF IInv, Enqueue, queueVars, handlerVars, TypeOK, CarriedOut, Resting
<1>4. RunnableWithinLimits'
  BY OutboxAssumption DEF IInv, Enqueue, queueVars, handlerVars, TypeOK, RunnableWithinLimits
<1>5. ClaimedOnce'
  BY OutboxAssumption DEF IInv, Enqueue, queueVars, handlerVars, TypeOK, ClaimedOnce
<1>6. PublishedIsQueued'
  BY OutboxAssumption DEF IInv, Enqueue, queueVars, handlerVars, TypeOK, PublishedIsQueued,
     AddedIsQueued, ClaimedOnce, SuccessIsReal
<1>7. SuccessIsReal'
  BY OutboxAssumption DEF IInv, Enqueue, queueVars, handlerVars, TypeOK, SuccessIsReal,
     CarriedOut
<1> QED
  BY <1>1, <1>2, <1>3, <1>4, <1>5, <1>6, <1>7 DEF IInv

\* A claim takes rows that no dispatcher has.
LEMMA ClaimKeeps ==
  ASSUME IInv, NEW d \in Dispatchers, Claim(d)
  PROVE  IInv'
<1>1. TypeOK'
  BY OutboxAssumption DEF IInv, Claim, Claimable, queueVars, handlerVars, TypeOK, Resting,
     Steps
<1>2. AddedIsQueued'
  BY OutboxAssumption DEF IInv, Claim, Claimable, queueVars, handlerVars, TypeOK,
     AddedIsQueued, SuccessIsReal
<1>3. CarriedOut'
  BY OutboxAssumption DEF IInv, Claim, Claimable, queueVars, handlerVars, TypeOK,
     CarriedOut, Resting
<1>4. RunnableWithinLimits'
  BY OutboxAssumption DEF IInv, Claim, Claimable, queueVars, handlerVars, TypeOK,
     RunnableWithinLimits
<1>5. ClaimedOnce'
  <2>1. PICK chosen \in SUBSET Claimable :
          /\ batch' = [batch EXCEPT ![d] = chosen]
          /\ row' = [f \in Events |-> IF f \in chosen THEN "PROCESSING" ELSE row[f]]
    BY DEF Claim
  <2>2. \A f \in chosen : f \in Events /\ row[f] # "PROCESSING"
    BY DEF Claimable
  <2>3. \A x \in Dispatchers : batch[x] \subseteq Events /\ batch[x] \cap chosen = {}
    BY <2>2 DEF IInv, TypeOK, ClaimedOnce
  <2>4. \A x \in Dispatchers : batch'[x] = IF x = d THEN chosen ELSE batch[x]
    BY <2>1 DEF IInv, TypeOK
  <2>5. \A x \in Dispatchers : \A f \in batch'[x] : row'[f] = "PROCESSING"
    BY <2>1, <2>2, <2>3, <2>4 DEF IInv, ClaimedOnce
  <2>6. \A x, y \in Dispatchers : x # y => batch'[x] \cap batch'[y] = {}
    BY <2>3, <2>4 DEF IInv, ClaimedOnce
  <2> QED
    BY <2>5, <2>6 DEF ClaimedOnce
<1>6. PublishedIsQueued'
  BY OutboxAssumption DEF IInv, Claim, Claimable, queueVars, handlerVars, TypeOK,
     PublishedIsQueued, AddedIsQueued, ClaimedOnce, SuccessIsReal
<1>7. SuccessIsReal'
  BY OutboxAssumption DEF IInv, Claim, Claimable, queueVars, handlerVars, TypeOK,
     SuccessIsReal, CarriedOut
<1> QED
  BY <1>1, <1>2, <1>3, <1>4, <1>5, <1>6, <1>7 DEF IInv

\* A job is added with all its attempts left.
LEMMA AddJobKeeps ==
  ASSUME IInv, NEW d \in Dispatchers, AddJob(d)
  PROVE  IInv'
<1>1. Oldest(batch[d]) \in batch[d] /\ batch[d] \subseteq Events
  BY OldestClaimed DEF IInv, TypeOK, AddJob
<1>2. TypeOK'
  BY <1>1, OutboxAssumption DEF IInv, AddJob, Accepted, handlerVars, TypeOK, Resting, Steps
<1>3. AddedIsQueued'
  BY <1>1, OutboxAssumption DEF IInv, AddJob, Accepted, handlerVars, TypeOK, AddedIsQueued,
     SuccessIsReal
<1>4. CarriedOut'
  BY <1>1, OutboxAssumption DEF IInv, AddJob, Accepted, handlerVars, TypeOK, CarriedOut,
     Resting
<1>5. RunnableWithinLimits'
  BY <1>1, OutboxAssumption DEF IInv, AddJob, Accepted, handlerVars, TypeOK,
     RunnableWithinLimits
<1>6. ClaimedOnce'
  BY <1>1, OutboxAssumption DEF IInv, AddJob, Accepted, handlerVars, TypeOK, ClaimedOnce
<1>7. PublishedIsQueued'
  BY <1>1, OutboxAssumption DEF IInv, AddJob, Accepted, handlerVars, TypeOK,
     PublishedIsQueued, AddedIsQueued, ClaimedOnce, SuccessIsReal
<1>8. SuccessIsReal'
  BY <1>1, OutboxAssumption DEF IInv, AddJob, Accepted, handlerVars, TypeOK, SuccessIsReal,
     CarriedOut
<1> QED
  BY <1>2, <1>3, <1>4, <1>5, <1>6, <1>7, <1>8 DEF IInv

\* A row is acknowledged after its job was added.
LEMMA MarkPublishedKeeps ==
  ASSUME IInv, NEW d \in Dispatchers, MarkPublished(d)
  PROVE  IInv'
<1>1. Oldest(batch[d]) \in batch[d] /\ batch[d] \subseteq Events
  BY OldestClaimed DEF IInv, TypeOK, MarkPublished
<1>2. TypeOK'
  BY <1>1, OutboxAssumption DEF IInv, MarkPublished, Finish, queueVars, handlerVars, TypeOK,
     Resting, Steps
<1>3. AddedIsQueued'
  BY <1>1, OutboxAssumption DEF IInv, MarkPublished, Finish, queueVars, handlerVars, TypeOK,
     AddedIsQueued, SuccessIsReal
<1>4. CarriedOut'
  BY <1>1, OutboxAssumption DEF IInv, MarkPublished, Finish, queueVars, handlerVars, TypeOK,
     CarriedOut, Resting
<1>5. RunnableWithinLimits'
  BY <1>1, OutboxAssumption DEF IInv, MarkPublished, Finish, queueVars, handlerVars, TypeOK,
     RunnableWithinLimits
<1>6. ClaimedOnce'
  BY <1>1, OutboxAssumption DEF IInv, MarkPublished, Finish, queueVars, handlerVars, TypeOK,
     ClaimedOnce
<1>7. PublishedIsQueued'
  BY <1>1, OutboxAssumption DEF IInv, MarkPublished, Finish, queueVars, handlerVars, TypeOK,
     PublishedIsQueued, AddedIsQueued, ClaimedOnce, SuccessIsReal
<1>8. SuccessIsReal'
  BY <1>1, OutboxAssumption DEF IInv, MarkPublished, Finish, queueVars, handlerVars, TypeOK,
     SuccessIsReal, CarriedOut
<1> QED
  BY <1>2, <1>3, <1>4, <1>5, <1>6, <1>7, <1>8 DEF IInv

\* A failed publication gives the row back.
LEMMA PublishFailsKeeps ==
  ASSUME IInv, NEW d \in Dispatchers, PublishFails(d)
  PROVE  IInv'
<1>1. Oldest(batch[d]) \in batch[d] /\ batch[d] \subseteq Events
  BY OldestClaimed DEF IInv, TypeOK, PublishFails
<1>2. TypeOK'
  BY <1>1, OutboxAssumption DEF IInv, PublishFails, Finish, Accepted, Fault, FaultKinds,
     handlerVars, TypeOK, Resting, Steps
<1>3. AddedIsQueued'
  <2>1. \A e \in Events : job[e] # "none" => job'[e] # "none"
    BY <1>1 DEF IInv, TypeOK, PublishFails, Accepted
  <2>2. \A x \in Dispatchers : added'[x] => added[x] /\ batch'[x] = batch[x]
    BY <1>1 DEF IInv, TypeOK, PublishFails, Finish
  <2>3. \A x \in Dispatchers : batch[x] # {} => Oldest(batch[x]) \in Events
    BY OldestClaimed DEF IInv, TypeOK
  <2>4. effects' = effects
    BY DEF PublishFails, handlerVars
  <2> QED
    BY <2>1, <2>2, <2>3, <2>4 DEF IInv, AddedIsQueued
<1>4. CarriedOut'
  BY <1>1, OutboxAssumption DEF IInv, PublishFails, Finish, Accepted, Fault, FaultKinds,
     handlerVars, TypeOK, CarriedOut, Resting
<1>5. RunnableWithinLimits'
  BY <1>1, OutboxAssumption DEF IInv, PublishFails, Finish, Accepted, Fault, FaultKinds,
     handlerVars, TypeOK, RunnableWithinLimits
<1>6. ClaimedOnce'
  BY <1>1, OutboxAssumption DEF IInv, PublishFails, Finish, Accepted, Fault, FaultKinds,
     handlerVars, TypeOK, ClaimedOnce
<1>7. PublishedIsQueued'
  BY <1>1, OutboxAssumption DEF IInv, PublishFails, Finish, Accepted, Fault, FaultKinds,
     handlerVars, TypeOK, PublishedIsQueued, AddedIsQueued, ClaimedOnce, SuccessIsReal
<1>8. SuccessIsReal'
  BY <1>1, OutboxAssumption DEF IInv, PublishFails, Finish, Accepted, Fault, FaultKinds,
     handlerVars, TypeOK, SuccessIsReal, CarriedOut
<1> QED
  BY <1>2, <1>3, <1>4, <1>5, <1>6, <1>7, <1>8 DEF IInv

\* A dispatcher that stops forgets its batch.
LEMMA DispatcherStopsKeeps ==
  ASSUME IInv, NEW d \in Dispatchers, DispatcherStops(d)
  PROVE  IInv'
<1>1. TypeOK'
  BY OutboxAssumption DEF IInv, DispatcherStops, Fault, FaultKinds, queueVars, handlerVars,
     TypeOK, Resting, Steps
<1>2. AddedIsQueued'
  BY OutboxAssumption DEF IInv, DispatcherStops, Fault, FaultKinds, queueVars, handlerVars,
     TypeOK, AddedIsQueued, SuccessIsReal
<1>3. CarriedOut'
  BY OutboxAssumption DEF IInv, DispatcherStops, Fault, FaultKinds, queueVars, handlerVars,
     TypeOK, CarriedOut, Resting
<1>4. RunnableWithinLimits'
  BY OutboxAssumption DEF IInv, DispatcherStops, Fault, FaultKinds, queueVars, handlerVars,
     TypeOK, RunnableWithinLimits
<1>5. ClaimedOnce'
  BY OutboxAssumption DEF IInv, DispatcherStops, Fault, FaultKinds, queueVars, handlerVars,
     TypeOK, ClaimedOnce
<1>6. PublishedIsQueued'
  BY OutboxAssumption DEF IInv, DispatcherStops, Fault, FaultKinds, queueVars, handlerVars,
     TypeOK, PublishedIsQueued, AddedIsQueued, ClaimedOnce, SuccessIsReal
<1>7. SuccessIsReal'
  BY OutboxAssumption DEF IInv, DispatcherStops, Fault, FaultKinds, queueVars, handlerVars,
     TypeOK, SuccessIsReal, CarriedOut
<1> QED
  BY <1>1, <1>2, <1>3, <1>4, <1>5, <1>6, <1>7 DEF IInv

\* A slot takes a job that waits.
LEMMA FetchKeeps ==
  ASSUME IInv, NEW w \in Workers, NEW e \in Events, Fetch(w, e)
  PROVE  IInv'
<1>1. TypeOK'
  BY OutboxAssumption DEF IInv, Fetch, dispatchVars, TypeOK, Resting, Steps
<1>2. AddedIsQueued'
  BY OutboxAssumption DEF IInv, Fetch, dispatchVars, TypeOK, AddedIsQueued, SuccessIsReal
<1>3. CarriedOut'
  BY OutboxAssumption DEF IInv, Fetch, dispatchVars, TypeOK, CarriedOut, Resting
<1>4. RunnableWithinLimits'
  BY OutboxAssumption DEF IInv, Fetch, dispatchVars, TypeOK, RunnableWithinLimits
<1>5. ClaimedOnce'
  BY OutboxAssumption DEF IInv, Fetch, dispatchVars, TypeOK, ClaimedOnce
<1>6. PublishedIsQueued'
  BY OutboxAssumption DEF IInv, Fetch, dispatchVars, TypeOK, PublishedIsQueued,
     AddedIsQueued, ClaimedOnce, SuccessIsReal
<1>7. SuccessIsReal'
  BY OutboxAssumption DEF IInv, Fetch, dispatchVars, TypeOK, SuccessIsReal, CarriedOut
<1> QED
  BY <1>1, <1>2, <1>3, <1>4, <1>5, <1>6, <1>7 DEF IInv

\* A job is taken from a silent slot.
LEMMA StallKeeps ==
  ASSUME IInv, NEW e \in Events, Stall(e)
  PROVE  IInv'
<1>1. TypeOK'
  BY OutboxAssumption DEF IInv, Stall, Fault, FaultKinds, dispatchVars, handlerVars, TypeOK,
     Resting, Steps, RunnableWithinLimits
<1>2. AddedIsQueued'
  BY OutboxAssumption DEF IInv, Stall, Fault, FaultKinds, dispatchVars, handlerVars, TypeOK,
     AddedIsQueued, SuccessIsReal
<1>3. CarriedOut'
  BY OutboxAssumption DEF IInv, Stall, Fault, FaultKinds, dispatchVars, handlerVars, TypeOK,
     CarriedOut, Resting
<1>4. RunnableWithinLimits'
  BY OutboxAssumption DEF IInv, Stall, Fault, FaultKinds, dispatchVars, handlerVars, TypeOK,
     RunnableWithinLimits
<1>5. ClaimedOnce'
  BY OutboxAssumption DEF IInv, Stall, Fault, FaultKinds, dispatchVars, handlerVars, TypeOK,
     ClaimedOnce
<1>6. PublishedIsQueued'
  BY OutboxAssumption DEF IInv, Stall, Fault, FaultKinds, dispatchVars, handlerVars, TypeOK,
     PublishedIsQueued, AddedIsQueued, ClaimedOnce, SuccessIsReal
<1>7. SuccessIsReal'
  BY OutboxAssumption DEF IInv, Stall, Fault, FaultKinds, dispatchVars, handlerVars, TypeOK,
     SuccessIsReal, CarriedOut
<1> QED
  BY <1>1, <1>2, <1>3, <1>4, <1>5, <1>6, <1>7 DEF IInv

\* A job ends when the slot that holds it reports.
LEMMA ReportKeeps ==
  ASSUME IInv, NEW w \in Workers, Report(w)
  PROVE  IInv'
<1>1. TypeOK'
  <2>1. run[w].event \in Events
    BY DEF IInv, CarriedOut, Report
  <2>2. run' \in [Workers -> [event : Events \cup {0}, step : Steps]]
    BY DEF IInv, TypeOK, Report, Resting, Steps
  <2>3. CASE owner[run[w].event] # w
    BY <2>2, <2>3 DEF IInv, TypeOK, Report, queueVars, dispatchVars
  <2>4. CASE owner[run[w].event] = w
    <3>1. attempts[run[w].event] \in 0..MaxAttempts /\ attempts[run[w].event] < MaxAttempts
      BY <2>1, <2>4 DEF IInv, TypeOK, RunnableWithinLimits
    <3>2. attempts[run[w].event] + 1 \in 0..MaxAttempts
      BY <3>1, OutboxAssumption
    <3>3. attempts' \in [Events -> 0..MaxAttempts]
      BY <2>4, <3>2 DEF IInv, TypeOK, Report
    <3>4. job' \in [Events -> {"none", "waiting", "active", "completed", "failed"}]
      BY <2>4 DEF IInv, TypeOK, Report
    <3> QED
      BY <2>2, <2>4, <3>3, <3>4 DEF IInv, TypeOK, Report, dispatchVars
  <2> QED
    BY <2>3, <2>4
<1>2. AddedIsQueued'
  <2>1. \A e \in Events : job[e] # "none" => job'[e] # "none"
    BY DEF IInv, TypeOK, Report, queueVars
  <2>2. UNCHANGED <<batch, added, effects>>
    BY DEF Report, dispatchVars
  <2>3. \A x \in Dispatchers : batch[x] # {} => Oldest(batch[x]) \in Events
    BY OldestClaimed DEF IInv, TypeOK
  <2> QED
    BY <2>1, <2>2, <2>3 DEF IInv, AddedIsQueued
<1>3. CarriedOut'
  BY OutboxAssumption DEF IInv, Report, Retried, queueVars, dispatchVars, TypeOK,
     CarriedOut, Resting
<1>4. RunnableWithinLimits'
  BY OutboxAssumption DEF IInv, Report, Retried, queueVars, dispatchVars, TypeOK,
     RunnableWithinLimits, CarriedOut
<1>5. ClaimedOnce'
  BY OutboxAssumption DEF IInv, Report, Retried, queueVars, dispatchVars, TypeOK, ClaimedOnce
<1>6. PublishedIsQueued'
  BY OutboxAssumption DEF IInv, Report, Retried, queueVars, dispatchVars, TypeOK,
     PublishedIsQueued, AddedIsQueued, ClaimedOnce, SuccessIsReal, CarriedOut,
     RunnableWithinLimits
<1>7. SuccessIsReal'
  BY OutboxAssumption DEF IInv, Report, Retried, queueVars, dispatchVars, TypeOK,
     SuccessIsReal, CarriedOut, RunnableWithinLimits
<1> QED
  BY <1>1, <1>2, <1>3, <1>4, <1>5, <1>6, <1>7 DEF IInv

\* The queue forgets a job whose effect was carried out.
LEMMA ForgetKeeps ==
  ASSUME IInv, NEW e \in Events, Forget(e)
  PROVE  IInv'
<1>1. TypeOK'
  BY OutboxAssumption DEF IInv, Forget, dispatchVars, handlerVars, TypeOK, Resting, Steps
<1>2. AddedIsQueued'
  BY OutboxAssumption DEF IInv, Forget, dispatchVars, handlerVars, TypeOK, AddedIsQueued,
     SuccessIsReal
<1>3. CarriedOut'
  BY OutboxAssumption DEF IInv, Forget, dispatchVars, handlerVars, TypeOK, CarriedOut, Resting
<1>4. RunnableWithinLimits'
  BY OutboxAssumption DEF IInv, Forget, dispatchVars, handlerVars, TypeOK, RunnableWithinLimits
<1>5. ClaimedOnce'
  BY OutboxAssumption DEF IInv, Forget, dispatchVars, handlerVars, TypeOK, ClaimedOnce
<1>6. PublishedIsQueued'
  BY OutboxAssumption DEF IInv, Forget, dispatchVars, handlerVars, TypeOK,
     PublishedIsQueued, AddedIsQueued, ClaimedOnce, SuccessIsReal
<1>7. SuccessIsReal'
  BY OutboxAssumption DEF IInv, Forget, dispatchVars, handlerVars, TypeOK, SuccessIsReal,
     CarriedOut
<1> QED
  BY <1>1, <1>2, <1>3, <1>4, <1>5, <1>6, <1>7 DEF IInv

\* A record of success answers for its effect.
LEMMA ReadRecordKeeps ==
  ASSUME IInv, NEW w \in Workers, ReadRecord(w)
  PROVE  IInv'
<1>1. TypeOK'
  BY OutboxAssumption DEF IInv, ReadRecord, Goto, queueVars, dispatchVars, TypeOK, Resting,
     Steps, CarriedOut
<1>2. AddedIsQueued'
  BY OutboxAssumption DEF IInv, ReadRecord, Goto, queueVars, dispatchVars, TypeOK,
     AddedIsQueued, SuccessIsReal
<1>3. CarriedOut'
  BY OutboxAssumption DEF IInv, ReadRecord, Goto, queueVars, dispatchVars, TypeOK,
     CarriedOut, Resting, Handled, SuccessIsReal
<1>4. RunnableWithinLimits'
  BY OutboxAssumption DEF IInv, ReadRecord, Goto, queueVars, dispatchVars, TypeOK,
     RunnableWithinLimits
<1>5. ClaimedOnce'
  BY OutboxAssumption DEF IInv, ReadRecord, Goto, queueVars, dispatchVars, TypeOK, ClaimedOnce
<1>6. PublishedIsQueued'
  BY OutboxAssumption DEF IInv, ReadRecord, Goto, queueVars, dispatchVars, TypeOK,
     PublishedIsQueued, AddedIsQueued, ClaimedOnce, SuccessIsReal
<1>7. SuccessIsReal'
  BY OutboxAssumption DEF IInv, ReadRecord, Goto, queueVars, dispatchVars, TypeOK,
     SuccessIsReal, CarriedOut
<1> QED
  BY <1>1, <1>2, <1>3, <1>4, <1>5, <1>6, <1>7 DEF IInv

\* A run begins by taking back what was recorded.
LEMMA UpsertRecordKeeps ==
  ASSUME IInv, NEW w \in Workers, UpsertRecord(w)
  PROVE  IInv'
<1>1. TypeOK'
  BY OutboxAssumption DEF IInv, UpsertRecord, Goto, queueVars, dispatchVars, TypeOK,
     Resting, Steps, CarriedOut
<1>2. AddedIsQueued'
  BY OutboxAssumption DEF IInv, UpsertRecord, Goto, queueVars, dispatchVars, TypeOK,
     AddedIsQueued, SuccessIsReal
<1>3. CarriedOut'
  BY OutboxAssumption DEF IInv, UpsertRecord, Goto, queueVars, dispatchVars, TypeOK,
     CarriedOut, Resting
<1>4. RunnableWithinLimits'
  BY OutboxAssumption DEF IInv, UpsertRecord, Goto, queueVars, dispatchVars, TypeOK,
     RunnableWithinLimits
<1>5. ClaimedOnce'
  BY OutboxAssumption DEF IInv, UpsertRecord, Goto, queueVars, dispatchVars, TypeOK,
     ClaimedOnce
<1>6. PublishedIsQueued'
  BY OutboxAssumption DEF IInv, UpsertRecord, Goto, queueVars, dispatchVars, TypeOK,
     PublishedIsQueued, AddedIsQueued, ClaimedOnce, SuccessIsReal
<1>7. SuccessIsReal'
  BY OutboxAssumption DEF IInv, UpsertRecord, Goto, queueVars, dispatchVars, TypeOK,
     SuccessIsReal, CarriedOut
<1> QED
  BY <1>1, <1>2, <1>3, <1>4, <1>5, <1>6, <1>7 DEF IInv

\* The effect is carried out.
LEMMA RouteKeeps ==
  ASSUME IInv, NEW w \in Workers, Route(w)
  PROVE  IInv'
<1>1. TypeOK'
  BY OutboxAssumption DEF IInv, Route, Goto, queueVars, dispatchVars, TypeOK, Resting,
     Steps, CarriedOut
<1>2. AddedIsQueued'
  BY OutboxAssumption DEF IInv, Route, Goto, queueVars, dispatchVars, TypeOK, AddedIsQueued,
     SuccessIsReal
<1>3. CarriedOut'
  BY OutboxAssumption DEF IInv, Route, Goto, queueVars, dispatchVars, TypeOK, CarriedOut,
     Resting
<1>4. RunnableWithinLimits'
  BY OutboxAssumption DEF IInv, Route, Goto, queueVars, dispatchVars, TypeOK,
     RunnableWithinLimits
<1>5. ClaimedOnce'
  BY OutboxAssumption DEF IInv, Route, Goto, queueVars, dispatchVars, TypeOK, ClaimedOnce
<1>6. PublishedIsQueued'
  BY OutboxAssumption DEF IInv, Route, Goto, queueVars, dispatchVars, TypeOK,
     PublishedIsQueued, AddedIsQueued, ClaimedOnce, SuccessIsReal
<1>7. SuccessIsReal'
  BY OutboxAssumption DEF IInv, Route, Goto, queueVars, dispatchVars, TypeOK, SuccessIsReal,
     CarriedOut
<1> QED
  BY <1>1, <1>2, <1>3, <1>4, <1>5, <1>6, <1>7 DEF IInv

\* The handler of the event throws.
LEMMA RouteFailsKeeps ==
  ASSUME IInv, NEW w \in Workers, RouteFails(w)
  PROVE  IInv'
<1>1. TypeOK'
  BY OutboxAssumption DEF IInv, RouteFails, Goto, queueVars, dispatchVars, TypeOK, Resting,
     Steps, CarriedOut
<1>2. AddedIsQueued'
  <2>1. \A e \in Events : effects[e] > 0 => effects'[e] > 0
    BY DEF IInv, TypeOK, RouteFails
  <2>2. UNCHANGED <<batch, added, job>>
    BY DEF RouteFails, dispatchVars, queueVars
  <2>3. \A x \in Dispatchers : batch[x] # {} => Oldest(batch[x]) \in Events
    BY OldestClaimed DEF IInv, TypeOK
  <2> QED
    BY <2>1, <2>2, <2>3 DEF IInv, AddedIsQueued
<1>3. CarriedOut'
  BY OutboxAssumption DEF IInv, RouteFails, Goto, queueVars, dispatchVars, TypeOK,
     CarriedOut, Resting
<1>4. RunnableWithinLimits'
  BY OutboxAssumption DEF IInv, RouteFails, Goto, queueVars, dispatchVars, TypeOK,
     RunnableWithinLimits
<1>5. ClaimedOnce'
  BY OutboxAssumption DEF IInv, RouteFails, Goto, queueVars, dispatchVars, TypeOK, ClaimedOnce
<1>6. PublishedIsQueued'
  BY OutboxAssumption DEF IInv, RouteFails, Goto, queueVars, dispatchVars, TypeOK,
     PublishedIsQueued, AddedIsQueued, ClaimedOnce, SuccessIsReal
<1>7. SuccessIsReal'
  BY OutboxAssumption DEF IInv, RouteFails, Goto, queueVars, dispatchVars, TypeOK,
     SuccessIsReal, CarriedOut
<1> QED
  BY <1>1, <1>2, <1>3, <1>4, <1>5, <1>6, <1>7 DEF IInv

\* Success is recorded after the effect.
LEMMA RecordSuccessKeeps ==
  ASSUME IInv, NEW w \in Workers, RecordSuccess(w)
  PROVE  IInv'
<1>1. TypeOK'
  BY OutboxAssumption DEF IInv, RecordSuccess, Goto, queueVars, dispatchVars, TypeOK,
     Resting, Steps, CarriedOut
<1>2. AddedIsQueued'
  BY OutboxAssumption DEF IInv, RecordSuccess, Goto, queueVars, dispatchVars, TypeOK,
     AddedIsQueued, SuccessIsReal
<1>3. CarriedOut'
  BY OutboxAssumption DEF IInv, RecordSuccess, Goto, queueVars, dispatchVars, TypeOK,
     CarriedOut, Resting
<1>4. RunnableWithinLimits'
  BY OutboxAssumption DEF IInv, RecordSuccess, Goto, queueVars, dispatchVars, TypeOK,
     RunnableWithinLimits
<1>5. ClaimedOnce'
  BY OutboxAssumption DEF IInv, RecordSuccess, Goto, queueVars, dispatchVars, TypeOK,
     ClaimedOnce
<1>6. PublishedIsQueued'
  BY OutboxAssumption DEF IInv, RecordSuccess, Goto, queueVars, dispatchVars, TypeOK,
     PublishedIsQueued, AddedIsQueued, ClaimedOnce, SuccessIsReal
<1>7. SuccessIsReal'
  BY OutboxAssumption DEF IInv, RecordSuccess, Goto, queueVars, dispatchVars, TypeOK,
     SuccessIsReal, CarriedOut
<1> QED
  BY <1>1, <1>2, <1>3, <1>4, <1>5, <1>6, <1>7 DEF IInv

\* A failure is recorded.
LEMMA RecordFailureKeeps ==
  ASSUME IInv, NEW w \in Workers, RecordFailure(w)
  PROVE  IInv'
<1>1. TypeOK'
  BY OutboxAssumption DEF IInv, RecordFailure, Goto, queueVars, dispatchVars, TypeOK,
     Resting, Steps, CarriedOut
<1>2. AddedIsQueued'
  BY OutboxAssumption DEF IInv, RecordFailure, Goto, queueVars, dispatchVars, TypeOK,
     AddedIsQueued, SuccessIsReal
<1>3. CarriedOut'
  BY OutboxAssumption DEF IInv, RecordFailure, Goto, queueVars, dispatchVars, TypeOK,
     CarriedOut, Resting
<1>4. RunnableWithinLimits'
  BY OutboxAssumption DEF IInv, RecordFailure, Goto, queueVars, dispatchVars, TypeOK,
     RunnableWithinLimits
<1>5. ClaimedOnce'
  BY OutboxAssumption DEF IInv, RecordFailure, Goto, queueVars, dispatchVars, TypeOK,
     ClaimedOnce
<1>6. PublishedIsQueued'
  BY OutboxAssumption DEF IInv, RecordFailure, Goto, queueVars, dispatchVars, TypeOK,
     PublishedIsQueued, AddedIsQueued, ClaimedOnce, SuccessIsReal
<1>7. SuccessIsReal'
  BY OutboxAssumption DEF IInv, RecordFailure, Goto, queueVars, dispatchVars, TypeOK,
     SuccessIsReal, CarriedOut
<1> QED
  BY <1>1, <1>2, <1>3, <1>4, <1>5, <1>6, <1>7 DEF IInv

\* A statement of the handler throws.
LEMMA StatementFailsKeeps ==
  ASSUME IInv, NEW w \in Workers, StatementFails(w)
  PROVE  IInv'
<1>1. TypeOK'
  BY OutboxAssumption DEF IInv, StatementFails, Goto, Fault, FaultKinds, queueVars,
     dispatchVars, TypeOK, Resting, Steps, CarriedOut
<1>2. AddedIsQueued'
  BY OutboxAssumption DEF IInv, StatementFails, Goto, Fault, FaultKinds, queueVars,
     dispatchVars, TypeOK, AddedIsQueued, SuccessIsReal
<1>3. CarriedOut'
  BY OutboxAssumption DEF IInv, StatementFails, Goto, Fault, FaultKinds, queueVars,
     dispatchVars, TypeOK, CarriedOut, Resting
<1>4. RunnableWithinLimits'
  BY OutboxAssumption DEF IInv, StatementFails, Goto, Fault, FaultKinds, queueVars,
     dispatchVars, TypeOK, RunnableWithinLimits
<1>5. ClaimedOnce'
  BY OutboxAssumption DEF IInv, StatementFails, Goto, Fault, FaultKinds, queueVars,
     dispatchVars, TypeOK, ClaimedOnce
<1>6. PublishedIsQueued'
  BY OutboxAssumption DEF IInv, StatementFails, Goto, Fault, FaultKinds, queueVars,
     dispatchVars, TypeOK, PublishedIsQueued, AddedIsQueued, ClaimedOnce, SuccessIsReal
<1>7. SuccessIsReal'
  BY OutboxAssumption DEF IInv, StatementFails, Goto, Fault, FaultKinds, queueVars,
     dispatchVars, TypeOK, SuccessIsReal, CarriedOut
<1> QED
  BY <1>1, <1>2, <1>3, <1>4, <1>5, <1>6, <1>7 DEF IInv

\* A slot stops.
LEMMA WorkerStopsKeeps ==
  ASSUME IInv, NEW w \in Workers, WorkerStops(w)
  PROVE  IInv'
<1>1. TypeOK'
  BY OutboxAssumption DEF IInv, WorkerStops, Goto, Fault, FaultKinds, queueVars,
     dispatchVars, TypeOK, Resting, Steps, CarriedOut
<1>2. AddedIsQueued'
  BY OutboxAssumption DEF IInv, WorkerStops, Goto, Fault, FaultKinds, queueVars,
     dispatchVars, TypeOK, AddedIsQueued, SuccessIsReal
<1>3. CarriedOut'
  BY OutboxAssumption DEF IInv, WorkerStops, Goto, Fault, FaultKinds, queueVars,
     dispatchVars, TypeOK, CarriedOut, Resting
<1>4. RunnableWithinLimits'
  BY OutboxAssumption DEF IInv, WorkerStops, Goto, Fault, FaultKinds, queueVars,
     dispatchVars, TypeOK, RunnableWithinLimits
<1>5. ClaimedOnce'
  BY OutboxAssumption DEF IInv, WorkerStops, Goto, Fault, FaultKinds, queueVars,
     dispatchVars, TypeOK, ClaimedOnce
<1>6. PublishedIsQueued'
  BY OutboxAssumption DEF IInv, WorkerStops, Goto, Fault, FaultKinds, queueVars,
     dispatchVars, TypeOK, PublishedIsQueued, AddedIsQueued, ClaimedOnce, SuccessIsReal
<1>7. SuccessIsReal'
  BY OutboxAssumption DEF IInv, WorkerStops, Goto, Fault, FaultKinds, queueVars,
     dispatchVars, TypeOK, SuccessIsReal, CarriedOut
<1> QED
  BY <1>1, <1>2, <1>3, <1>4, <1>5, <1>6, <1>7 DEF IInv

LEMMA InvInductive ==
  ASSUME IInv, [Next]_vars
  PROVE  IInv'
<1>1. CASE UNCHANGED vars
  BY <1>1 DEF IInv, vars, dispatchVars, queueVars, handlerVars, TypeOK, AddedIsQueued,
     CarriedOut,
     RunnableWithinLimits, ClaimedOnce, PublishedIsQueued, SuccessIsReal
<1>2. CASE \E e \in Events : Enqueue(e) \/ Stall(e) \/ Forget(e)
  BY <1>2, EnqueueKeeps, StallKeeps, ForgetKeeps
<1>3. CASE \E d \in Dispatchers : Dispatch(d) \/ PublishFails(d) \/ DispatcherStops(d)
  BY <1>3, ClaimKeeps, AddJobKeeps, MarkPublishedKeeps, PublishFailsKeeps, DispatcherStopsKeeps
     DEF Dispatch
<1>4. CASE \E w \in Workers : Handle(w)
  BY <1>4, ReadRecordKeeps, UpsertRecordKeeps, RouteKeeps, RouteFailsKeeps, RecordSuccessKeeps,
     RecordFailureKeeps, ReportKeeps
     DEF Handle
<1>5. CASE \E w \in Workers :
             StatementFails(w) \/ WorkerStops(w) \/ \E e \in Events : Fetch(w, e)
  BY <1>5, StatementFailsKeeps, WorkerStopsKeeps, FetchKeeps
<1> QED
  BY <1>1, <1>2, <1>3, <1>4, <1>5 DEF Next

LEMMA Invariant == Spec => []IInv
<1>1. IInv /\ [Next]_vars => IInv'
  BY InvInductive
<1> QED
  BY InitInv, <1>1, PTL DEF Spec

\* Attempts, restarts and faults stay within their limits, and every row, job, record and
\* slot within the states the code knows (job-queue.service.ts:33-39, schema.prisma:1131-1166).
THEOREM Typed == Spec => []TypeOK
<1>1. IInv => TypeOK
  BY DEF IInv
<1> QED
  BY Invariant, <1>1, PTL

\* A row is never worked on by two dispatchers, in any number of processes that stop
\* or fail at any moment.
THEOREM ClaimsExclusive == Spec => []ClaimedOnce
<1>1. IInv => ClaimedOnce
  BY DEF IInv
<1> QED
  BY Invariant, <1>1, PTL

\* No row is acknowledged unless the queue has its job or has carried it out.
THEOREM NothingLostInTransport == Spec => []PublishedIsQueued
<1>1. IInv => PublishedIsQueued
  BY DEF IInv
<1> QED
  BY Invariant, <1>1, PTL

\* No success is recorded, or reported to the queue, without the effect.
THEOREM SuccessNeedsEffect == Spec => []SuccessIsReal
<1>1. IInv => SuccessIsReal
  BY DEF IInv
<1> QED
  BY Invariant, <1>1, PTL
=============================================================================
