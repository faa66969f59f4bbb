------------------------------ MODULE SyncRuns ------------------------------
(***************************************************************************)
(* Pulling one kind of record from one connected account: the rows of      *)
(* SyncRun, the scheduler thread and the staff who queue them              *)
(* (crm/connect/scheduler.py) and the workers that carry them out          *)
(* (crm/connect/tasks.py).  The provider's items are numbered in the order *)
(* it publishes them, and a cursor is the number of the last one received. *)
(*                                                                         *)
(* The row of a run that no query returns any more is cleared for the next *)
(* run, so a behaviour may have any number of runs.                        *)
(***************************************************************************)
EXTENDS Integers, FiniteSets, TLAPS

CONSTANTS
    Runs,        \* rows of SyncRun
    Starters,    \* the scheduler thread and staff requests that queue runs
    Scheduler,   \* the starter that is the scheduler thread
    Workers,     \* worker processes, each doing one task at a time
    LastItem,    \* bound: how many items the provider publishes
    MaxCrashes,  \* bound: how many times a process goes away
    None         \* no run

ASSUME SyncAssumption ==
    /\ Scheduler \in Starters
    /\ LastItem \in Nat
    /\ MaxCrashes \in Nat
    /\ None \notin Runs

VARIABLES
    active,     \* Connection.status is ACTIVE
    published,  \* items the provider has
    run,        \* the SyncRun rows
    last,       \* the run created last, as SyncRun's ordering returns it
    previous,   \* cursor_after of the successful run that finished last
    queue,      \* runs whose task waits in the task table
    starter,    \* how far each starter is
    worker,     \* how far each worker is
    received,   \* items records_received has brought to their receiver, which has
                \* stored them or logged that it could not
    crashes     \* how many processes have gone away

vars == <<active, published, run, last, previous, queue, starter, worker,
          received, crashes>>
rowVars == <<run, last, previous>>
itemVars == <<published, received>>

----------------------------------------------------------------------------
\* Values

Items == 1..LastItem
Cursors == 0..LastItem
UnderWay == {"queued", "running"}
Finished == {"succeeded", "failed", "skipped"}

\* A run is "due" once its capability's sync_interval has passed since it was
\* created and "stale" after STALE_RUN_AFTER; no connector's interval is longer.
Ages == {"new", "due", "stale"}
Row == [status: UnderWay \cup Finished \cup {"unused"}, age: Ages]
Unused == [status |-> "unused", age |-> "new"]

Starter == [step: {"idle", "create", "enqueue"}, run: Runs \cup {None}]
IdleStarter == [step |-> "idle", run |-> None]

\* A worker holds its run, the cursor it started from and, once the connector has
\* answered, the next item to deliver and the batch's cursor.
Worker == [step: {"idle", "sync", "deliver"}, run: Runs \cup {None},
           next: 1..(LastItem + 1), upto: Cursors]
IdleWorker == [step |-> "idle", run |-> None, next |-> 1, upto |-> 0]

\* A run ends.  Only the run created last is looked at after it has ended.
Ended(r, status) ==
    IF r = last THEN [run EXCEPT ![r].status = status] ELSE [run EXCEPT ![r] = Unused]

----------------------------------------------------------------------------
\* The provider, the connection and the clock

\* The provider has a new item.
Publish ==
    /\ published < LastItem
    /\ published' = published + 1
    /\ UNCHANGED <<active, rowVars, queue, starter, worker, received, crashes>>

\* The connection stops or resumes: disconnect, a failed or passed test, a sign-in.
SwitchConnection ==
    /\ active' = ~active
    /\ UNCHANGED <<rowVars, itemVars, queue, starter, worker, crashes>>

\* Slip: a run is never given up.
NextAgeDue(age) == "due"

NextAge(age) == IF age = "new" THEN "due" ELSE "stale"

GrowOld(r) ==
    /\ run[r].status # "unused"
    /\ run[r].age # "stale"
    /\ run' = [run EXCEPT ![r].age = NextAge(@)]
    /\ UNCHANGED <<active, last, previous, itemVars, queue, starter, worker, crashes>>

----------------------------------------------------------------------------
\* Queuing a run: scheduler.py

\* sync_is_due: the last run is absent, finished an interval ago, or abandoned.
SyncIsDue ==
    \/ last = None
    \/ last # None /\ run[last].status \in UnderWay /\ run[last].age = "stale"
    \/ last # None /\ run[last].status \notin UnderWay /\ run[last].age # "new"

\* start_syncs: staff need not wait for the interval.
NotBusy ==
    \/ last = None
    \/ last # None /\ (run[last].status \notin UnderWay \/ run[last].age = "stale")

\* queue_due_syncs or start_syncs looks at the connection and the last run.
Look(s) ==
    /\ starter[s] = IdleStarter
    /\ active
    /\ IF s = Scheduler THEN SyncIsDue ELSE NotBusy
    /\ starter' = [starter EXCEPT ![s].step = "create"]
    /\ UNCHANGED <<active, rowVars, itemVars, queue, worker, crashes>>

\* No process and no task is about this run any more, and it counts for nothing.
Abandoned(r) ==
    /\ run[r].age = "stale"
    /\ r \notin queue
    /\ \A s \in Starters : starter[s].run # r
    /\ \A w \in Workers : worker[w].run # r

\* queue_sync: the row commits.
Create(s) ==
    /\ starter[s].step = "create"
    /\ \E r \in Runs \ {last} :
        /\ run[r] = Unused \/ Abandoned(r)
        /\ run' = [o \in Runs |->
                    IF o = r THEN [status |-> "queued", age |-> "new"]
                    ELSE IF run[o].status \in Finished \/ Abandoned(o) THEN Unused
                    ELSE run[o]]
        /\ last' = r
        /\ starter' = [starter EXCEPT ![s] = [step |-> "enqueue", run |-> r]]
    /\ UNCHANGED <<active, previous, itemVars, queue, worker, crashes>>

\* queue_sync, on commit: the task is enqueued.
Enqueue(s) ==
    /\ starter[s].step = "enqueue"
    /\ queue' = queue \cup {starter[s].run}
    /\ starter' = [starter EXCEPT ![s] = IdleStarter]
    /\ UNCHANGED <<active, rowVars, itemVars, worker, crashes>>

----------------------------------------------------------------------------
\* Carrying out a run: run_sync

\* The worker takes the task.  The connection is not active: the run is skipped.
Skip(w, r) ==
    /\ worker[w] = IdleWorker
    /\ r \in queue
    /\ ~active
    /\ queue' = queue \ {r}
    /\ run' = Ended(r, "skipped")
    /\ UNCHANGED <<active, last, previous, itemVars, starter, worker, crashes>>

\* Slip: the cursor is taken for the next item to ask for.
CursorAsNext == previous + 1

\* cursor_before: where the successful run that finished last came to.
CursorBefore == previous

Begin(w, r) ==
    /\ worker[w] = IdleWorker
    /\ r \in queue
    /\ active
    /\ queue' = queue \ {r}
    /\ run' = [run EXCEPT ![r].status = "running"]
    /\ worker' = [worker EXCEPT ![w] =
                    [step |-> "sync", run |-> r, next |-> CursorBefore + 1, upto |-> 0]]
    /\ UNCHANGED <<active, last, previous, itemVars, starter, crashes>>

\* The connector returns the items newer than the cursor up to hi, which is short
\* of the newest if it stops early, at a rate limit, and warns.
Receive(w, hi) ==
    /\ worker[w].step = "sync"
    /\ hi \in (worker[w].next - 1)..published
    /\ worker' = [worker EXCEPT ![w].step = "deliver", ![w].upto = hi]
    /\ UNCHANGED <<active, rowVars, itemVars, queue, starter, crashes>>

\* The connector raises an error.
FailSync(w) ==
    /\ worker[w].step = "sync"
    /\ run' = Ended(worker[w].run, "failed")
    /\ worker' = [worker EXCEPT ![w] = IdleWorker]
    /\ UNCHANGED <<active, last, previous, itemVars, queue, starter, crashes>>

\* records_received: the next item reaches its receiver.
Deliver(w) ==
    LET n == worker[w].next IN
    /\ worker[w].step = "deliver"
    /\ n <= worker[w].upto
    /\ worker' = [worker EXCEPT ![w].next = n + 1]
    /\ received' = received \cup {n}
    /\ UNCHANGED <<active, rowVars, published, queue, starter, crashes>>

\* Slip: the run counts as done as soon as the connector has answered.
AllDeliveredAlways(w) == TRUE

AllDelivered(w) == worker[w].next > worker[w].upto

Succeed(w) ==
    /\ worker[w].step = "deliver"
    /\ AllDelivered(w)
    /\ run' = Ended(worker[w].run, "succeeded")
    /\ previous' = worker[w].upto
    /\ worker' = [worker EXCEPT ![w] = IdleWorker]
    /\ UNCHANGED <<active, last, itemVars, queue, starter, crashes>>

----------------------------------------------------------------------------
\* A process goes away: what it held in memory is lost, its task is not retried

\* Before the row is created there is nothing to lose.
CrashStarter(s) ==
    /\ starter[s].step = "enqueue"
    /\ crashes < MaxCrashes
    /\ crashes' = crashes + 1
    /\ starter' = [starter EXCEPT ![s] = IdleStarter]
    /\ UNCHANGED <<active, rowVars, itemVars, queue, worker>>

CrashWorker(w) ==
    /\ worker[w] # IdleWorker
    /\ crashes < MaxCrashes
    /\ crashes' = crashes + 1
    /\ worker' = [worker EXCEPT ![w] = IdleWorker]
    /\ UNCHANGED <<active, rowVars, itemVars, queue, starter>>

----------------------------------------------------------------------------
Init ==
    /\ active = TRUE
    /\ published = 0
    /\ run = [r \in Runs |-> Unused]
    /\ last = None
    /\ previous = 0
    /\ queue = {}
    /\ starter = [s \in Starters |-> IdleStarter]
    /\ worker = [w \in Workers |-> IdleWorker]
    /\ received = {}
    /\ crashes = 0

Start(s) == Look(s) \/ Create(s) \/ Enqueue(s)
Work(w) ==
    \/ \E r \in Runs : Skip(w, r) \/ Begin(w, r)
    \/ \E hi \in Cursors : Receive(w, hi)
    \/ FailSync(w) \/ Deliver(w) \/ Succeed(w)

Next ==
    \/ Publish \/ SwitchConnection
    \/ \E r \in Runs : GrowOld(r)
    \/ \E s \in Starters : Start(s) \/ CrashStarter(s)
    \/ \E w \in Workers : Work(w) \/ CrashWorker(w)

Spec == Init /\ [][Next]_vars

\* The scheduler thread ticks again and again, a request or task that can go on
\* does, time passes, and the connector does not fail or stop early for ever.
FairSpec ==
    /\ Spec
    /\ WF_vars(Look(Scheduler))
    /\ \A s \in Starters : WF_vars(Create(s) \/ Enqueue(s))
    /\ \A w \in Workers : WF_vars(Work(w))
    /\ \A r \in Runs : WF_vars(GrowOld(r))
    /\ SF_vars(\E w \in Workers : Receive(w, published))

----------------------------------------------------------------------------
\* Properties

TypeOK ==
    /\ active \in BOOLEAN
    /\ published \in Cursors
    /\ run \in [Runs -> Row]
    /\ last \in Runs \cup {None}
    /\ previous \in Cursors
    /\ queue \subseteq Runs
    /\ starter \in [Starters -> Starter]
    /\ worker \in [Workers -> Worker]
    /\ received \subseteq Items
    /\ crashes \in 0..MaxCrashes

\* No item is lost without a trace: wherever the next sync resumes from, and
\* whatever else was running or went away meanwhile, every earlier item has reached
\* its receiver.
NothingSkipped == 1..previous \subseteq received

\* start_syncs queues a sync "unless one is already under way": of the runs that
\* are not given up as abandoned, one at most is queued or running.
OneUnderWay ==
    \A r1, r2 \in Runs :
        /\ run[r1].status \in UnderWay /\ run[r1].age # "stale"
        /\ run[r2].status \in UnderWay /\ run[r2].age # "stale"
        => r1 = r2

\* While the connection stays active, every item the provider publishes is
\* received, although runs fail, stop early, go missing or overlap.
EveryItemArrives ==
    <>[]active => \A n \in Items : published >= n ~> n \in received

----------------------------------------------------------------------------
(* Proofs, for any number of runs, starters, workers and items. *)

\* A worker that is busy has a run; a starter that has created one knows it.
Shape ==
    /\ \A w \in Workers : worker[w].step # "idle" => worker[w].run \in Runs
    /\ \A s \in Starters : starter[s].step = "enqueue" => starter[s].run \in Runs

\* What a worker has delivered: everything from the cursor its run started at,
\* and that cursor was itself some successful run's.
Delivered ==
    \A w \in Workers :
        /\ worker[w].step # "idle" => 1..(worker[w].next - 1) \subseteq received
        /\ worker[w].step = "deliver" => worker[w].next <= worker[w].upto + 1

Inv == TypeOK /\ Shape /\ Delivered /\ NothingSkipped

LEMMA IdleTypes == IdleStarter \in Starter /\ IdleWorker \in Worker
BY SyncAssumption DEF IdleStarter, Starter, IdleWorker, Worker, Cursors

LEMMA InvInit == Init => Inv
<1> SUFFICES ASSUME Init PROVE Inv
  OBVIOUS
<1>1. TypeOK
  <2>1. run \in [Runs -> Row]
    BY DEF Init, Row, Unused, Ages
  <2>2. starter \in [Starters -> Starter] /\ worker \in [Workers -> Worker]
    BY IdleTypes DEF Init
  <2>3. active \in BOOLEAN /\ published \in Cursors /\ previous \in Cursors
        /\ crashes \in 0..MaxCrashes
    BY SyncAssumption DEF Init, Cursors
  <2>4. last \in Runs \cup {None} /\ queue \subseteq Runs /\ received \subseteq Items
    BY DEF Init
  <2>5. QED BY <2>1, <2>2, <2>3, <2>4 DEF TypeOK
<1>2. Shape /\ Delivered
  BY DEF Init, Shape, Delivered, IdleStarter, IdleWorker
<1>3. NothingSkipped
  BY DEF Init, NothingSkipped
<1>4. QED BY <1>1, <1>2, <1>3 DEF Inv

\* A run's row stays well formed when it ends.
LEMMA EndedType ==
    ASSUME run \in [Runs -> Row], NEW r \in Runs, NEW s \in Finished
    PROVE  Ended(r, s) \in [Runs -> Row]
<1>1. Unused \in Row
  BY DEF Unused, Row, Ages
<1>2. [run[r] EXCEPT !.status = s] \in Row
  BY DEF Row
<1>3. QED BY <1>1, <1>2 DEF Ended

\* A step that leaves items, cursor and workers alone keeps what workers know.
LEMMA Elsewhere ==
    ASSUME Inv, UNCHANGED <<previous, itemVars, worker>>
    PROVE  Delivered' /\ NothingSkipped'
BY DEF Inv, Delivered, NothingSkipped, itemVars

LEMMA InvStep == Inv /\ [Next]_vars => Inv'
<1> SUFFICES ASSUME Inv, [Next]_vars PROVE Inv'
  OBVIOUS
<1> USE DEF Inv
<1>1. CASE Publish
  <2>1. published' \in Cursors
    BY <1>1, SyncAssumption DEF Publish, TypeOK, Cursors
  <2>2. TypeOK'
    BY <1>1, <2>1 DEF Publish, TypeOK, rowVars
  <2>3. Shape' /\ Delivered' /\ NothingSkipped'
    BY <1>1 DEF Publish, Shape, Delivered, NothingSkipped, rowVars
  <2>4. QED BY <2>2, <2>3
<1>2. CASE SwitchConnection
  <2>1. TypeOK'
    BY <1>2 DEF SwitchConnection, TypeOK, rowVars, itemVars
  <2>2. Shape'
    BY <1>2 DEF SwitchConnection, Shape
  <2>3. QED BY <1>2, <2>1, <2>2, Elsewhere DEF SwitchConnection, rowVars
<1>3. ASSUME NEW r \in Runs, GrowOld(r) PROVE Inv'
  <2>1. NextAge(run[r].age) \in Ages
    BY DEF NextAge, Ages
  <2>2. run' \in [Runs -> Row]
    <3>1. [run[r] EXCEPT !.age = NextAge(@)] \in Row
      BY <2>1 DEF TypeOK, Row
    <3>2. QED BY <1>3, <3>1 DEF GrowOld, TypeOK
  <2>3. TypeOK'
    BY <1>3, <2>2 DEF GrowOld, TypeOK, itemVars
  <2>4. Shape'
    BY <1>3 DEF GrowOld, Shape
  <2>5. QED BY <1>3, <2>3, <2>4, Elsewhere DEF GrowOld
<1>4. ASSUME NEW s \in Starters, Look(s) PROVE Inv'
  <2> DEFINE new == [starter[s] EXCEPT !.step = "create"]
  <2>1. new \in Starter /\ new.step = "create"
    BY DEF TypeOK, Starter
  <2>2. starter' = [starter EXCEPT ![s] = new]
    BY <1>4 DEF Look
  <2> HIDE DEF new
  <2>3. starter' \in [Starters -> Starter]
    BY <2>1, <2>2 DEF TypeOK
  <2>4. TypeOK'
    BY <1>4, <2>3 DEF Look, TypeOK, rowVars, itemVars
  <2>5. Shape'
    BY <1>4, <2>1, <2>2 DEF Look, Shape, TypeOK
  <2>6. QED BY <1>4, <2>4, <2>5, Elsewhere DEF Look, rowVars
<1>5. ASSUME NEW s \in Starters, Create(s) PROVE Inv'
  <2>1. PICK r \in Runs :
            /\ run' = [o \in Runs |->
                        IF o = r THEN [status |-> "queued", age |-> "new"]
                        ELSE IF run[o].status \in Finished \/ Abandoned(o) THEN Unused
                        ELSE run[o]]
            /\ last' = r
            /\ starter' = [starter EXCEPT ![s] = [step |-> "enqueue", run |-> r]]
    BY <1>5 DEF Create
  <2>2. run' \in [Runs -> Row]
    BY <2>1 DEF TypeOK, Row, Unused, Ages, UnderWay
  <2>3. starter' \in [Starters -> Starter]
    BY <2>1 DEF TypeOK, Starter
  <2>4. TypeOK'
    BY <1>5, <2>1, <2>2, <2>3 DEF Create, TypeOK, itemVars
  <2>5. Shape'
    BY <1>5, <2>1 DEF Create, Shape, TypeOK
  <2>6. QED BY <1>5, <2>4, <2>5, Elsewhere DEF Create
<1>6. ASSUME NEW s \in Starters, Enqueue(s) PROVE Inv'
  <2>1. starter[s].run \in Runs
    BY <1>6 DEF Enqueue, Shape
  <2>2. starter' \in [Starters -> Starter] /\ queue' \subseteq Runs
    BY <1>6, <2>1, IdleTypes DEF Enqueue, TypeOK
  <2>3. TypeOK'
    BY <1>6, <2>2 DEF Enqueue, TypeOK, rowVars, itemVars
  <2>4. Shape'
    BY <1>6 DEF Enqueue, Shape, TypeOK, IdleStarter
  <2>5. QED BY <1>6, <2>3, <2>4, Elsewhere DEF Enqueue, rowVars
<1>7. ASSUME NEW w \in Workers, NEW r \in Runs, Skip(w, r) PROVE Inv'
  <2>1. run' \in [Runs -> Row]
    BY <1>7, EndedType DEF Skip, TypeOK, Finished
  <2>2. TypeOK'
    BY <1>7, <2>1 DEF Skip, TypeOK, itemVars
  <2>3. Shape'
    BY <1>7 DEF Skip, Shape
  <2>4. QED BY <1>7, <2>2, <2>3, Elsewhere DEF Skip
<1>8. ASSUME NEW w \in Workers, NEW r \in Runs, Begin(w, r) PROVE Inv'
  <2> DEFINE new == [step |-> "sync", run |-> r, next |-> CursorBefore + 1, upto |-> 0]
  <2>1. new \in Worker
    BY SyncAssumption DEF Worker, Cursors, CursorBefore, TypeOK
  <2>2. worker' = [worker EXCEPT ![w] = new]
    BY <1>8 DEF Begin
  <2>3. run' \in [Runs -> Row]
    <3>1. [run[r] EXCEPT !.status = "running"] \in Row
      BY DEF TypeOK, Row, UnderWay
    <3>2. QED BY <1>8, <3>1 DEF Begin, TypeOK
  <2>4. TypeOK'
    BY <1>8, <2>1, <2>2, <2>3 DEF Begin, TypeOK, itemVars
  <2>5. Shape'
    BY <1>8, <2>2 DEF Begin, Shape, TypeOK
  <2>6. new.next - 1 = previous /\ new.step = "sync"
    BY DEF CursorBefore, TypeOK, Cursors
  <2> HIDE DEF new
  <2>7. Delivered'
    BY <1>8, <2>2, <2>6 DEF Begin, Delivered, NothingSkipped, itemVars, TypeOK
  <2>8. NothingSkipped'
    BY <1>8 DEF Begin, NothingSkipped, itemVars
  <2>9. QED BY <2>4, <2>5, <2>7, <2>8
<1>9. ASSUME NEW w \in Workers, NEW hi \in Cursors, Receive(w, hi) PROVE Inv'
  <2> DEFINE new == [worker[w] EXCEPT !.step = "deliver", !.upto = hi]
  <2>1. worker[w] \in Worker
    BY DEF TypeOK
  <2>2. new \in Worker
    BY <2>1 DEF Worker
  <2>3. /\ new.step = "deliver" /\ new.upto = hi
        /\ new.next = worker[w].next /\ new.run = worker[w].run
    BY <2>1 DEF Worker
  <2>4. worker' = [worker EXCEPT ![w] = new]
    BY <1>9 DEF Receive
  <2> HIDE DEF new
  <2>5. TypeOK'
    BY <1>9, <2>2, <2>4 DEF Receive, TypeOK, rowVars, itemVars
  <2>6. Shape'
    BY <1>9, <2>3, <2>4 DEF Receive, Shape, TypeOK
  <2>7. worker[w].next <= hi + 1
    BY <1>9, <2>1 DEF Receive, TypeOK, Worker, Cursors
  <2>8. Delivered'
    BY <1>9, <2>3, <2>4, <2>7 DEF Receive, Delivered, itemVars, TypeOK
  <2>9. NothingSkipped'
    BY <1>9 DEF Receive, NothingSkipped, rowVars, itemVars
  <2>10. QED BY <2>5, <2>6, <2>8, <2>9
<1>10. ASSUME NEW w \in Workers, FailSync(w) PROVE Inv'
  <2>1. run' \in [Runs -> Row]
    BY <1>10, EndedType DEF FailSync, Shape, TypeOK, Finished
  <2>2. worker' \in [Workers -> Worker]
    BY <1>10, IdleTypes DEF FailSync, TypeOK
  <2>3. TypeOK'
    BY <1>10, <2>1, <2>2 DEF FailSync, TypeOK, itemVars
  <2>4. Shape'
    BY <1>10 DEF FailSync, Shape, TypeOK, IdleWorker
  <2>5. Delivered'
    BY <1>10 DEF FailSync, Delivered, TypeOK, IdleWorker, itemVars
  <2>6. NothingSkipped'
    BY <1>10 DEF FailSync, NothingSkipped, itemVars
  <2>7. QED BY <2>3, <2>4, <2>5, <2>6
<1>11. ASSUME NEW w \in Workers, Deliver(w) PROVE Inv'
  <2> DEFINE n == worker[w].next
             new == [worker[w] EXCEPT !.next = n + 1]
  <2>1. worker[w] \in Worker /\ n \in 1..(LastItem + 1) /\ worker[w].upto \in Cursors
    BY DEF TypeOK, Worker
  <2>2. n <= worker[w].upto /\ n \in Items
    BY <1>11, <2>1, SyncAssumption DEF Deliver, Cursors, Items
  <2>3. new \in Worker
    BY <2>1, <2>2, SyncAssumption DEF Worker, Items
  <2>4. /\ new.step = "deliver" /\ new.upto = worker[w].upto
        /\ new.next = n + 1 /\ new.run = worker[w].run
    BY <1>11, <2>1 DEF Worker, Deliver
  <2>5. worker' = [worker EXCEPT ![w] = new] /\ received' = received \cup {n}
    BY <1>11 DEF Deliver
  <2> HIDE DEF new
  <2>6. TypeOK'
    BY <1>11, <2>2, <2>3, <2>5 DEF Deliver, TypeOK, rowVars
  <2>7. Shape'
    BY <1>11, <2>4, <2>5 DEF Deliver, Shape, TypeOK
  <2>8. 1..(n - 1) \subseteq received
    BY <1>11 DEF Deliver, Delivered
  <2>9. 1..(new.next - 1) \subseteq received'
    BY <2>1, <2>4, <2>5, <2>8
  <2>10. new.next <= new.upto + 1
    BY <2>1, <2>2, <2>4 DEF Cursors
  <2>11. Delivered'
    BY <2>5, <2>9, <2>10 DEF Delivered, TypeOK
  <2>12. NothingSkipped'
    BY <1>11, <2>5 DEF Deliver, NothingSkipped, rowVars
  <2>13. QED BY <2>6, <2>7, <2>11, <2>12
<1>12. ASSUME NEW w \in Workers, Succeed(w) PROVE Inv'
  <2>1. worker[w] \in Worker
    BY DEF TypeOK
  <2>2. worker[w].upto \in Cursors /\ worker[w].upto <= worker[w].next - 1
    BY <1>12, <2>1 DEF Succeed, AllDelivered, Worker, Cursors
  <2>3. run' \in [Runs -> Row]
    BY <1>12, EndedType DEF Succeed, Shape, TypeOK, Finished
  <2>4. worker' \in [Workers -> Worker]
    BY <1>12, IdleTypes DEF Succeed, TypeOK
  <2>5. TypeOK'
    BY <1>12, <2>2, <2>3, <2>4 DEF Succeed, TypeOK, itemVars
  <2>6. Shape'
    BY <1>12 DEF Succeed, Shape, TypeOK, IdleWorker
  <2>7. Delivered'
    BY <1>12 DEF Succeed, Delivered, TypeOK, IdleWorker, itemVars
  <2>8. 1..(worker[w].next - 1) \subseteq received
    BY <1>12 DEF Succeed, Delivered
  <2>9. NothingSkipped'
    BY <1>12, <2>1, <2>2, <2>8 DEF Succeed, NothingSkipped, itemVars, Worker, Cursors
  <2>10. QED BY <2>5, <2>6, <2>7, <2>9
<1>13. ASSUME NEW s \in Starters, CrashStarter(s) PROVE Inv'
  <2>1. starter' \in [Starters -> Starter] /\ crashes' \in 0..MaxCrashes
    BY <1>13, IdleTypes, SyncAssumption DEF CrashStarter, TypeOK
  <2>2. TypeOK'
    BY <1>13, <2>1 DEF CrashStarter, TypeOK, rowVars, itemVars
  <2>3. Shape'
    BY <1>13 DEF CrashStarter, Shape, TypeOK, IdleStarter
  <2>4. QED BY <1>13, <2>2, <2>3, Elsewhere DEF CrashStarter, rowVars
<1>14. ASSUME NEW w \in Workers, CrashWorker(w) PROVE Inv'
  <2>1. worker' \in [Workers -> Worker] /\ crashes' \in 0..MaxCrashes
    BY <1>14, IdleTypes, SyncAssumption DEF CrashWorker, TypeOK
  <2>2. TypeOK'
    BY <1>14, <2>1 DEF CrashWorker, TypeOK, rowVars, itemVars
  <2>3. Shape'
    BY <1>14 DEF CrashWorker, Shape, TypeOK, IdleWorker
  <2>4. Delivered'
    BY <1>14 DEF CrashWorker, Delivered, TypeOK, IdleWorker, itemVars
  <2>5. NothingSkipped'
    BY <1>14 DEF CrashWorker, NothingSkipped, rowVars, itemVars
  <2>6. QED BY <2>2, <2>3, <2>4, <2>5
<1>15. CASE UNCHANGED vars
  <2>1. TypeOK'
    BY <1>15 DEF vars, rowVars, itemVars, TypeOK
  <2>2. Shape'
    BY <1>15 DEF vars, Shape
  <2>3. QED BY <1>15, <2>1, <2>2, Elsewhere DEF vars, itemVars
<1>16. QED
  BY <1>1, <1>2, <1>3, <1>4, <1>5, <1>6, <1>7, <1>8, <1>9, <1>10, <1>11, <1>12, <1>13,
     <1>14, <1>15 DEF Next, Start, Work

LEMMA InvAlways == Spec => []Inv
BY InvInit, InvStep, PTL DEF Spec

\* Rows, cursors, tasks and processes stay well formed.
THEOREM SyncTypes == Spec => []TypeOK
BY InvAlways, PTL DEF Inv

\* However many runs overlap, fail, stop early or go missing, the cursor the next
\* run resumes from never passes an item that no receiver was given.
THEOREM NoItemSkipped == Spec => []NothingSkipped
BY InvAlways, PTL DEF Inv
=============================================================================
