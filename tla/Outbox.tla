------------------------------- MODULE Outbox -------------------------------
(***************************************************************************)
(* How a committed change reaches the outside world: the dispatcher that   *)
(* moves outbox rows into the job queue (outbox-dispatcher.service.ts,     *)
(* job-queue.service.ts), the queue itself (BullMQ, external: modelled     *)
(* from how job-queue.service.ts and job-consumer.service.ts use it) and   *)
(* the handler with its record of each job (job-handler.service.ts).       *)
(*                                                                         *)
(* API and worker processes both run a dispatcher.  Every database         *)
(* statement and every call of the queue is a step of its own, except the  *)
(* claim, which is one transaction.  A process may stop between any two of *)
(* its steps, and restarts with nothing in memory.  Events are numbered in *)
(* the order of their createdAt.                                           *)
(***************************************************************************)
EXTENDS Naturals, FiniteSets

CONSTANTS
  Events,        \* outbox events, in order of creation
  Dispatchers,   \* processes that run an OutboxDispatcherService
  Workers,       \* slots of the consumer, 8 in each worker process
  BatchSize,     \* the limit of a claim, 25 in the code
  MaxAttempts,   \* attempts of a job, 8 in the code
  MaxStalls,     \* how often the queue restarts a job whose worker went silent
  PublishFaults, DispatcherFaults, WorkerFaults  \* bounds of the model: how often
                 \* a publication fails, a dispatcher stops, a slot stops or stalls

NoSlot == "no slot"

ASSUME OutboxAssumption ==
  /\ Events \subseteq Nat
  /\ NoSlot \notin Workers
  /\ BatchSize \in Nat \ {0} /\ MaxAttempts \in Nat \ {0} /\ MaxStalls \in Nat
  /\ PublishFaults \in Nat /\ DispatcherFaults \in Nat /\ WorkerFaults \in Nat

VARIABLES
  row,         \* OutboxEvent.status of each event, "absent" before its commit
  batch,       \* events a dispatcher has claimed and not dealt with yet
  added,       \* whether the oldest of them is in the queue already
  job,         \* the queue's state of the job of each event
  attempts,    \* its failed attempts
  stalls,      \* how often it was taken from a silent worker
  owner,       \* the slot that holds its lock
  record,      \* BackgroundJobRecord.status of each event
  run,         \* what each slot is doing: an event and the next step
  effects,     \* how often the effect of each event was carried out
  faults       \* failures so far, of each kind

dispatchVars == <<row, batch, added>>
queueVars == <<job, attempts, stalls, owner>>
handlerVars == <<record, run, effects>>
vars == <<dispatchVars, queueVars, handlerVars, faults>>

Steps == {"idle", "read", "upsert", "route", "succeed", "fail", "ok", "error"}
Resting == [event |-> 0, step |-> "idle"]
FaultKinds == {"publish", "dispatcher", "worker"}

TypeOK ==
  /\ row \in [Events -> {"absent", "PENDING", "PROCESSING", "PUBLISHED", "FAILED"}]
  /\ batch \in [Dispatchers -> SUBSET Events]
  /\ added \in [Dispatchers -> BOOLEAN]
  /\ job \in [Events -> {"none", "waiting", "active", "completed", "failed"}]
  /\ attempts \in [Events -> 0..MaxAttempts]
  /\ stalls \in [Events -> 0..(MaxStalls + 1)]
  /\ owner \in [Events -> Workers \cup {NoSlot}]
  /\ record \in [Events -> {"none", "ACTIVE", "SUCCEEDED", "FAILED"}]
  /\ run \in [Workers -> [event : Events \cup {0}, step : Steps]]
  /\ effects \in [Events -> Nat]
  /\ faults \in [FaultKinds -> Nat]

Init ==
  /\ row = [e \in Events |-> "absent"]
  /\ batch = [d \in Dispatchers |-> {}]
  /\ added = [d \in Dispatchers |-> FALSE]
  /\ job = [e \in Events |-> "none"]
  /\ attempts = [e \in Events |-> 0]
  /\ stalls = [e \in Events |-> 0]
  /\ owner = [e \in Events |-> NoSlot]
  /\ record = [e \in Events |-> "none"]
  /\ run = [w \in Workers |-> Resting]
  /\ effects = [e \in Events |-> 0]
  /\ faults = [kind \in FaultKinds |-> 0]

Fault(kind, bound) ==
  /\ faults[kind] < bound
  /\ faults' = [faults EXCEPT ![kind] = @ + 1]
-----------------------------------------------------------------------------
\* The dispatcher.

\* The row is written by the transaction it tells of.
Enqueue(e) ==
  /\ row[e] = "absent"
  /\ row' = [row EXCEPT ![e] = "PENDING"]
  /\ UNCHANGED <<batch, added, queueVars, handlerVars, faults>>

\* Variant: a row that is being processed may be claimed as well.
ClaimableTwice == {e \in Events : row[e] \in {"PENDING", "PROCESSING", "FAILED"}}

\* Variant: a failed publication is not tried again.
ClaimableOnce == {e \in Events : row[e] = "PENDING"}

\* claim looks at these rows only, and so its condition on lockedAt, which is set
\* exactly while a row is PROCESSING, never refuses one.
Claimable == {e \in Events : row[e] \in {"PENDING", "FAILED"}}

\* dispatchBatch starts when the previous batch is done.  Which rows it gets is
\* open: FAILED ones wait for availableAt, and SKIP LOCKED passes others over.
Claim(d) ==
  /\ batch[d] = {}
  /\ \E chosen \in SUBSET Claimable :
       /\ chosen # {} /\ Cardinality(chosen) <= BatchSize
       /\ batch' = [batch EXCEPT ![d] = chosen]
       /\ row' = [e \in Events |-> IF e \in chosen THEN "PROCESSING" ELSE row[e]]
  /\ UNCHANGED <<added, queueVars, handlerVars, faults>>

Oldest(S) == CHOOSE e \in S : \A f \in S : e <= f

\* Variant: add returns without a queue, as it does while the API description is
\* generated.
NotAccepted(e) == job

\* The queue ignores a job whose id it still has.
Accepted(e) == IF job[e] = "none" THEN [job EXCEPT ![e] = "waiting"] ELSE job

\* publish: the job is added, ...
AddJob(d) ==
  /\ batch[d] # {} /\ ~added[d]
  /\ job' = Accepted(Oldest(batch[d]))
  /\ added' = [added EXCEPT ![d] = TRUE]
  /\ UNCHANGED <<row, batch, attempts, stalls, owner, handlerVars, faults>>

Finish(d, status) ==
  LET e == Oldest(batch[d])
  IN
  /\ row' = [row EXCEPT ![e] = status]
  /\ batch' = [batch EXCEPT ![d] = @ \ {e}]
  /\ added' = [added EXCEPT ![d] = FALSE]

\* ... then the row is marked.
MarkPublished(d) ==
  /\ batch[d] # {} /\ added[d]
  /\ Finish(d, "PUBLISHED")
  /\ UNCHANGED <<queueVars, handlerVars, faults>>

\* Either call throws: the row is FAILED and will be claimed again.  A call of the
\* queue that throws may have added the job all the same.
PublishFails(d) ==
  /\ batch[d] # {}
  /\ Fault("publish", PublishFaults)
  /\ job' \in {job, Accepted(Oldest(batch[d]))}
  /\ Finish(d, "FAILED")
  /\ UNCHANGED <<attempts, stalls, owner, handlerVars>>

\* The process stops, or the update in the catch block throws and dispatchBatch
\* rejects: what was claimed is forgotten.
DispatcherStops(d) ==
  /\ batch[d] # {}
  /\ Fault("dispatcher", DispatcherFaults)
  /\ batch' = [batch EXCEPT ![d] = {}]
  /\ added' = [added EXCEPT ![d] = FALSE]
  /\ UNCHANGED <<row, queueVars, handlerVars>>
-----------------------------------------------------------------------------
\* The queue.

Fetch(w, e) ==
  /\ run[w].step = "idle"
  /\ job[e] = "waiting"
  /\ job' = [job EXCEPT ![e] = "active"]
  /\ owner' = [owner EXCEPT ![e] = w]
  /\ run' = [run EXCEPT ![w] = [event |-> e, step |-> "read"]]
  /\ UNCHANGED <<dispatchVars, attempts, stalls, record, effects, faults>>

\* A job whose lock is not renewed is given to another slot, though the one that
\* held it may be slow rather than dead; after too many times it is failed.
Silent(e) == \A w \in Workers : run[w].event # e

Stall(e) ==
  /\ job[e] = "active"
  /\ IF Silent(e) THEN UNCHANGED faults ELSE Fault("worker", WorkerFaults)
  /\ job' = [job EXCEPT ![e] = IF stalls[e] < MaxStalls THEN "waiting" ELSE "failed"]
  /\ stalls' = [stalls EXCEPT ![e] = @ + 1]
  /\ owner' = [owner EXCEPT ![e] = NoSlot]
  /\ UNCHANGED <<dispatchVars, attempts, handlerVars>>

\* Variant: one attempt too many.
RetriedAgain(failed) == failed <= MaxAttempts
Retried(failed) == failed < MaxAttempts

\* The outcome of a slot that no longer holds the lock is ignored.
Report(w) ==
  LET e == run[w].event
      failed == attempts[e] + 1
  IN
  /\ run[w].step \in {"ok", "error"}
  /\ run' = [run EXCEPT ![w] = Resting]
  /\ IF owner[e] # w
     THEN UNCHANGED queueVars
     ELSE /\ owner' = [owner EXCEPT ![e] = NoSlot]
          /\ IF run[w].step = "ok"
             THEN job' = [job EXCEPT ![e] = "completed"] /\ UNCHANGED attempts
             ELSE /\ attempts' = [attempts EXCEPT ![e] = failed]
                  /\ job' = [job EXCEPT ![e] = IF Retried(failed) THEN "waiting" ELSE "failed"]
          /\ UNCHANGED stalls
  /\ UNCHANGED <<dispatchVars, record, effects, faults>>

\* removeOnComplete: with the job its id is forgotten.
Forget(e) ==
  /\ job[e] = "completed"
  /\ job' = [job EXCEPT ![e] = "none"]
  /\ attempts' = [attempts EXCEPT ![e] = 0]
  /\ stalls' = [stalls EXCEPT ![e] = 0]
  /\ UNCHANGED <<dispatchVars, owner, handlerVars, faults>>
-----------------------------------------------------------------------------
\* The handler: handle(envelope) in slot w.

Goto(w, step) == run' = [run EXCEPT ![w].step = step]

\* Variant: any record of the job counts as handled.
Recorded(e) == record[e] # "none"

\* A job whose record says it has succeeded is not carried out again.
Handled(e) == record[e] = "SUCCEEDED"

ReadRecord(w) ==
  /\ run[w].step = "read"
  /\ Goto(w, IF Handled(run[w].event) THEN "ok" ELSE "upsert")
  /\ UNCHANGED <<dispatchVars, queueVars, record, effects, faults>>

UpsertRecord(w) ==
  /\ run[w].step = "upsert"
  /\ record' = [record EXCEPT ![run[w].event] = "ACTIVE"]
  /\ Goto(w, "route")
  /\ UNCHANGED <<dispatchVars, queueVars, effects, faults>>

\* route, in the order email, standings or notifications, and back.
Route(w) ==
  /\ run[w].step = "route"
  /\ effects' = [effects EXCEPT ![run[w].event] = @ + 1]
  /\ Goto(w, "succeed")
  /\ UNCHANGED <<dispatchVars, queueVars, record, faults>>

\* The handler of the event throws, before or after it has had its effect.
RouteFails(w) ==
  /\ run[w].step = "route"
  /\ effects' \in {effects, [effects EXCEPT ![run[w].event] = @ + 1]}
  /\ Goto(w, "fail")
  /\ UNCHANGED <<dispatchVars, queueVars, record, faults>>

RecordSuccess(w) ==
  /\ run[w].step = "succeed"
  /\ record' = [record EXCEPT ![run[w].event] = "SUCCEEDED"]
  /\ Goto(w, "ok")
  /\ UNCHANGED <<dispatchVars, queueVars, effects, faults>>

RecordFailure(w) ==
  /\ run[w].step = "fail"
  /\ record' = [record EXCEPT ![run[w].event] = "FAILED"]
  /\ Goto(w, "error")
  /\ UNCHANGED <<dispatchVars, queueVars, effects, faults>>

\* A statement of the handler throws; inside the try block it is caught.
StatementFails(w) ==
  /\ run[w].step \in {"read", "upsert", "succeed", "fail"}
  /\ Fault("worker", WorkerFaults)
  /\ Goto(w, IF run[w].step = "succeed" THEN "fail" ELSE "error")
  /\ UNCHANGED <<dispatchVars, queueVars, record, effects>>

WorkerStops(w) ==
  /\ run[w].step # "idle"
  /\ Fault("worker", WorkerFaults)
  /\ run' = [run EXCEPT ![w] = Resting]
  /\ UNCHANGED <<dispatchVars, queueVars, record, effects>>
-----------------------------------------------------------------------------
Dispatch(d) == Claim(d) \/ AddJob(d) \/ MarkPublished(d)

Handle(w) ==
  \/ ReadRecord(w) \/ UpsertRecord(w) \/ Route(w) \/ RouteFails(w)
  \/ RecordSuccess(w) \/ RecordFailure(w) \/ Report(w)

Next ==
  \/ \E e \in Events : Enqueue(e) \/ Stall(e) \/ Forget(e)
  \/ \E d \in Dispatchers : Dispatch(d) \/ PublishFails(d) \/ DispatcherStops(d)
  \/ \E w \in Workers :
       Handle(w) \/ StatementFails(w) \/ WorkerStops(w) \/ \E e \in Events : Fetch(w, e)

\* The dispatcher's timer fires every second, slots take waiting jobs and go on
\* with the one they have, and the queue notices a job that nobody runs.  Nothing
\* makes a failure happen, a handler succeed, or the queue forget.
Fairness ==
  /\ \A d \in Dispatchers : WF_vars(Dispatch(d))
  /\ \A w \in Workers : WF_vars(Handle(w)) /\ WF_vars(\E e \in Events : Fetch(w, e))
  /\ \A e \in Events : WF_vars(Silent(e) /\ Stall(e))

Spec == Init /\ [][Next]_vars
FairSpec == Spec /\ Fairness
-----------------------------------------------------------------------------
\* A row is worked on by one dispatcher at a time, and only while it says so.
ClaimedOnce ==
  /\ \A d \in Dispatchers : \A e \in batch[d] : row[e] = "PROCESSING"
  /\ \A d1, d2 \in Dispatchers : d1 # d2 => batch[d1] \cap batch[d2] = {}

\* A row is acknowledged only when the queue has its job, or had it until its
\* effect was carried out: no failure of the transport is silently acknowledged.
PublishedIsQueued ==
  \A e \in Events : row[e] = "PUBLISHED" => job[e] # "none" \/ effects[e] > 0

\* What is recorded as done was done: neither a stalled, repeated or concurrent run
\* nor a stop between two statements leaves a success without its effect.
SuccessIsReal ==
  \A e \in Events : record[e] = "SUCCEEDED" \/ job[e] = "completed" => effects[e] > 0

\* While no dispatcher fails between claim and mark, every committed event is carried
\* out or ends up visibly failed in the queue, in spite of stops of workers.
EventuallySettled ==
  \A e \in Events : row[e] = "PENDING" ~> job[e] \in {"completed", "failed"}

\* A claimed row does not stay claimed for ever.
ClaimsEnd == \A e \in Events : row[e] = "PROCESSING" ~> row[e] # "PROCESSING"
=============================================================================
