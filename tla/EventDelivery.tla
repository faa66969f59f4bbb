--------------------------- MODULE EventDelivery ---------------------------
(***************************************************************************)
(* CRM events on their way to one automation connection: crm/events.  A    *)
(* web request that saves an object announces an event; once it commits, a *)
(* delivery row is created and its task queued; a worker sends it through  *)
(* the outbound policy and retries it until it settles.  A delivery stands *)
(* for one event at this connection.                                       *)
(*                                                                         *)
(* The delays between retries are left out: a retry may come at any later  *)
(* time.  The SENT rows of the last hour, which the policy counts, leave   *)
(* that hour at any time as well; it may have some to begin with.          *)
(***************************************************************************)
EXTENDS OutboundPolicy, FiniteSets

CONSTANTS
    Deliveries,   \* events to deliver to the connection
    Workers,      \* worker processes
    Settings,     \* states the Connection row may be in
    MaxAttempts,  \* MAX_ATTEMPTS
    MaxCrashes,   \* bound: how many processes go away
    None          \* no delivery

\* What attempt() asks the policy for: an automation without a person or target.
Event == [capability |-> "automation", actor |-> Nobody, manager |-> FALSE,
          automation |-> TRUE, ownerSync |-> FALSE, optedOut |-> FALSE]

ASSUME DeliveryAssumption ==
    /\ None \notin Deliveries
    /\ IsFiniteSet(Workers) /\ Workers # {}
    /\ Settings # {}
    /\ MaxAttempts \in Nat \ {0}
    /\ MaxCrashes \in Nat

VARIABLES
    conn,      \* the Connection row
    emitter,   \* how far the web request that announces each event is
    delivery,  \* EventDelivery rows
    queue,     \* deliveries whose task waits in the task table
    worker,    \* how far each worker is
    recent,    \* OutboundRequest rows of the last hour with status SENT
    received,  \* deliveries whose event has reached the receiver
    crashes    \* how many processes have gone away

vars == <<conn, emitter, delivery, queue, worker, recent, received, crashes>>
emitVars == <<emitter, queue>>

----------------------------------------------------------------------------
\* Values

SettledStatus == {"sent", "previewed", "blocked", "failed"}
DeliveryRow == [status: {"none", "queued", "retrying"} \cup SettledStatus,
                attempts: 0..MaxAttempts]

\* A worker holds its delivery, the connection as it was read with it and, once
\* known, what became of the attempt: SENT, FAILED or the policy's code.
Worker == [step: {"idle", "decide", "call", "log", "save", "requeue"},
           delivery: Deliveries \cup {None}, conn: Settings \cup {None},
           result: Codes \cup {"sent", "failed", "none"}]
IdleWorker == [step |-> "idle", delivery |-> None, conn |-> None, result |-> "none"]

IsSettled(d) == delivery[d].status \in SettledStatus

Crash ==
    /\ crashes < MaxCrashes
    /\ crashes' = crashes + 1

----------------------------------------------------------------------------
\* The connection and the clock

\* Staff change the connection, or its provider's answers do.
ChangeConnection(row) ==
    /\ conn' = row
    /\ UNCHANGED <<emitVars, delivery, worker, recent, received, crashes>>

\* A SENT row becomes an hour old.
HourPasses ==
    /\ recent > 0
    /\ recent' = recent - 1
    /\ UNCHANGED <<conn, emitVars, delivery, worker, received, crashes>>

----------------------------------------------------------------------------
\* Announcing an event: emit and queue_deliveries

\* A model signal announces the event while the request's transaction runs, if the
\* connection is not disconnected and automation is on.
Emit(d) ==
    /\ emitter[d] = "none"
    /\ conn.status # "disconnected"
    /\ Event.capability \in conn.capabilities
    /\ emitter' = [emitter EXCEPT ![d] = "emitted"]
    /\ UNCHANGED <<conn, delivery, queue, worker, recent, received, crashes>>

\* The transaction rolls back, or the object is deleted before the commit's
\* callback reads it again: nothing is announced.
Withdraw(d) ==
    /\ emitter[d] = "emitted"
    /\ emitter' = [emitter EXCEPT ![d] = "done"]
    /\ UNCHANGED <<conn, delivery, queue, worker, recent, received, crashes>>

\* On commit: the delivery row is created.
CreateDelivery(d) ==
    /\ emitter[d] = "emitted"
    /\ emitter' = [emitter EXCEPT ![d] = "created"]
    /\ delivery' = [delivery EXCEPT ![d].status = "queued"]
    /\ UNCHANGED <<conn, queue, worker, recent, received, crashes>>

\* And its task queued.
EnqueueDelivery(d) ==
    /\ emitter[d] = "created"
    /\ emitter' = [emitter EXCEPT ![d] = "done"]
    /\ queue' = queue \cup {d}
    /\ UNCHANGED <<conn, delivery, worker, recent, received, crashes>>

\* The web server goes away in between.
CrashEmitter(d) ==
    /\ emitter[d] = "created"
    /\ emitter' = [emitter EXCEPT ![d] = "done"]
    /\ Crash
    /\ UNCHANGED <<conn, delivery, queue, worker, recent, received>>

----------------------------------------------------------------------------
\* A worker's attempt: deliver_event, attempt and policy.send

\* The worker takes the task and reads the delivery and its connection.
Take(w, d) ==
    /\ worker[w] = IdleWorker
    /\ d \in queue
    /\ queue' = queue \ {d}
    /\ worker' = [worker EXCEPT ![w] =
            IF IsSettled(d) THEN IdleWorker
            ELSE [step |-> "decide", delivery |-> d, conn |-> conn, result |-> "none"]]
    /\ UNCHANGED <<conn, emitter, delivery, recent, received, crashes>>

\* The policy counts the connection's SENT requests and decides.  What it does not
\* allow is recorded at once.
Decide(w) ==
    LET code == Evaluate(worker[w].conn, Event, recent) IN
    /\ worker[w].step = "decide"
    /\ worker' = [worker EXCEPT ![w].step = IF code = "ok" THEN "call" ELSE "save",
                                ![w].result = code]
    /\ UNCHANGED <<conn, emitVars, delivery, recent, received, crashes>>

\* The connector posts the event and the receiver accepts it.
Accepted(w) ==
    /\ worker[w].step = "call"
    /\ received' = received \cup {worker[w].delivery}
    /\ worker' = [worker EXCEPT ![w].step = "log", ![w].result = "sent"]
    /\ UNCHANGED <<conn, emitVars, delivery, recent, crashes>>

\* The post fails: the receiver did not get it, or its answer was lost or an error.
NotAccepted(w) ==
    /\ worker[w].step = "call"
    /\ received' \in {received, received \cup {worker[w].delivery}}
    /\ worker' = [worker EXCEPT ![w].step = "log", ![w].result = "failed"]
    /\ UNCHANGED <<conn, emitVars, delivery, recent, crashes>>

\* The OutboundRequest row is saved.
Log(w) ==
    /\ worker[w].step = "log"
    /\ recent' = IF worker[w].result = "sent" THEN recent + 1 ELSE recent
    /\ worker' = [worker EXCEPT ![w].step = "save"]
    /\ UNCHANGED <<conn, emitVars, delivery, received, crashes>>

\* Slip: one more retry than there are delays.
StatusAfterOneMore(result, attempts) ==
    CASE result = "sent" -> "sent"
      [] result = "preview_mode" -> "previewed"
      [] result \in {"failed", "rate_limited"} ->
            IF attempts <= MaxAttempts THEN "retrying" ELSE "failed"
      [] OTHER -> "blocked"
\* Slip: a failed call is settled as sent.
StatusAfterCall(result, attempts) ==
    CASE result \in {"sent", "failed"} -> "sent"
      [] result = "preview_mode" -> "previewed"
      [] result = "rate_limited" -> IF attempts < MaxAttempts THEN "retrying" ELSE "failed"
      [] OTHER -> "blocked"

\* attempt: what the result of an attempt makes of the delivery.
StatusAfter(result, attempts) ==
    CASE result = "sent" -> "sent"
      [] result = "preview_mode" -> "previewed"
      [] result \in {"failed", "rate_limited"} ->
            IF attempts < MaxAttempts THEN "retrying" ELSE "failed"
      [] OTHER -> "blocked"

\* The delivery is saved.
Save(w) ==
    LET d == worker[w].delivery
        attempts == delivery[d].attempts + 1
        status == StatusAfter(worker[w].result, attempts)
    IN
    /\ worker[w].step = "save"
    /\ delivery' = [delivery EXCEPT ![d] = [status |-> status, attempts |-> attempts]]
    /\ worker' = [worker EXCEPT ![w] =
            IF status = "retrying" THEN [worker[w] EXCEPT !.step = "requeue"] ELSE IdleWorker]
    /\ UNCHANGED <<conn, emitVars, recent, received, crashes>>

\* Slip: the retry's task is left out.
RequeueNothing(w) ==
    /\ worker[w].step = "requeue"
    /\ worker' = [worker EXCEPT ![w] = IdleWorker]
    /\ UNCHANGED <<conn, emitVars, delivery, recent, received, crashes>>

\* A retry is queued.
Requeue(w) ==
    /\ worker[w].step = "requeue"
    /\ queue' = queue \cup {worker[w].delivery}
    /\ worker' = [worker EXCEPT ![w] = IdleWorker]
    /\ UNCHANGED <<conn, emitter, delivery, recent, received, crashes>>

\* The worker goes away: its task is not run again.
CrashWorker(w) ==
    /\ worker[w] # IdleWorker
    /\ worker' = [worker EXCEPT ![w] = IdleWorker]
    /\ Crash
    /\ UNCHANGED <<conn, emitVars, delivery, recent, received>>

----------------------------------------------------------------------------
Init ==
    /\ conn \in Settings
    /\ emitter = [d \in Deliveries |-> "none"]
    /\ delivery = [d \in Deliveries |-> [status |-> "none", attempts |-> 0]]
    /\ queue = {}
    /\ worker = [w \in Workers |-> IdleWorker]
    /\ recent \in 0..HourlyLimit
    /\ received = {}
    /\ crashes = 0

Announce(d) == CreateDelivery(d) \/ EnqueueDelivery(d)

Work(w) ==
    \/ \E d \in Deliveries : Take(w, d)
    \/ Decide(w) \/ Accepted(w) \/ NotAccepted(w) \/ Log(w) \/ Save(w) \/ Requeue(w)

Next ==
    \/ \E row \in Settings : ChangeConnection(row)
    \/ HourPasses
    \/ \E d \in Deliveries : Emit(d) \/ Withdraw(d) \/ Announce(d) \/ CrashEmitter(d)
    \/ \E w \in Workers : Work(w) \/ CrashWorker(w)

Spec == Init /\ [][Next]_vars

\* A request goes on once it has committed, and a worker with work works.
FairSpec ==
    /\ Spec
    /\ \A d \in Deliveries : WF_vars(EnqueueDelivery(d))
    /\ \A w \in Workers : WF_vars(Work(w))

----------------------------------------------------------------------------
\* Properties

TypeOK ==
    /\ conn \in Settings
    /\ emitter \in [Deliveries -> {"none", "emitted", "created", "done"}]
    /\ delivery \in [Deliveries -> DeliveryRow]
    /\ queue \subseteq Deliveries
    /\ worker \in [Workers -> Worker]
    /\ recent \in Nat
    /\ received \subseteq Deliveries
    /\ crashes \in 0..MaxCrashes

\* The policy counts before it calls and records after, so workers at the same
\* moment can pass the hourly limit, but by no more than one call for each of the
\* others.
LimitNearlyHeld == recent <= HourlyLimit + Cardinality(Workers) - 1

\* Every delivery keeps the outbox's promise: it settles once and for good, and as
\* sent only if its event has reached the receiver.
Outcome(d) ==
    LET status == delivery[d].status IN
    IF status \in {"queued", "retrying"} THEN "pending" ELSE status
Promise == INSTANCE Outbox WITH outcome <- [d \in Deliveries |-> Outcome(d)]
KeepsPromise == Promise!Spec

\* With no process lost, every delivery that is queued settles in the end.
SettlesUnlessCrashed ==
    [](crashes = 0) => \A d \in Deliveries : delivery[d].status = "queued" ~> IsSettled(d)

\* models.py: a delivery is "retried until it settles".  A process that goes away
\* between two of its writes leaves a delivery that no task will take up again.
RetriedUntilSettled == \A d \in Deliveries : delivery[d].status = "queued" ~> IsSettled(d)

----------------------------------------------------------------------------
\* For TLC: the connection as set up, in preview mode, and disconnected.
Ready == [installed |-> TRUE, status |-> "active", capabilities |-> {"automation"},
          acknowledged |-> TRUE, owner |-> Nobody, adminOnly |-> FALSE, preview |-> FALSE]
SampleSettings == {Ready,
                   [Ready EXCEPT !.preview = TRUE],
                   [Ready EXCEPT !.status = "disconnected"]}
=============================================================================
