------------------------ MODULE EventDeliveryProofs ------------------------
(***************************************************************************)
(* What the outbound policy's decision means, for any connection, request  *)
(* and number of recent sends; and event delivery, for any number of       *)
(* events, workers and connection settings.                                *)
(***************************************************************************)
EXTENDS EventDelivery, FiniteSetTheorems, WellFoundedInduction, TLAPS

----------------------------------------------------------------------------
\* The policy

\* A sequence of checks that ends with one that holds has a first one that holds.
LEMMA FirstCheck ==
    ASSUME NEW checks, NEW n \in Nat \ {0}, checks[n].holds
    PROVE  \E i \in 1..n : checks[i].holds /\ \A j \in 1..(i - 1) : ~checks[j].holds
<1> DEFINE Smaller == {p \in Nat \X Nat : p[1] < p[2]}
<1> DEFINE Holding == {i \in 1..n : checks[i].holds}
<1>1. IsWellFoundedOn(Smaller, Nat)
  BY NatLessThanWellFounded DEF OpToRel
<1>2. Holding \subseteq Nat /\ n \in Holding
  OBVIOUS
<1> HIDE DEF Smaller
<1>3. PICK i \in Holding : \A j \in Holding : <<j, i>> \notin Smaller
  BY <1>1, <1>2, WFMin
<1>4. ASSUME NEW j \in 1..(i - 1) PROVE ~checks[j].holds
  <2>1. <<j, i>> \in Smaller /\ j \in 1..n
    BY DEF Smaller
  <2>2. QED BY <1>3, <2>1
<1>5. QED BY <1>4

\* evaluate answers with the code of the first check that holds.
LEMMA FirstDecides ==
    ASSUME NEW row, NEW request, NEW sends
    PROVE  \E i \in 1..11 :
              /\ Evaluate(row, request, sends) = Checks(row, request, sends)[i].code
              /\ \A j \in 1..(i - 1) : ~Checks(row, request, sends)[j].holds
<1> DEFINE checks == Checks(row, request, sends)
<1> DEFINE First(i) == checks[i].holds /\ \A j \in 1..(i - 1) : ~checks[j].holds
<1>1. DOMAIN checks = 1..11 /\ checks[11].holds
  BY DEF Checks
<1> HIDE DEF checks
<1>2. \E i \in 1..11 : First(i)
  BY <1>1, FirstCheck
<1>3. Evaluate(row, request, sends) = checks[CHOOSE i \in 1..11 : First(i)].code
  BY <1>1 DEF Evaluate, checks
<1>4. PICK first \in 1..11 : First(first) /\ first = CHOOSE i \in 1..11 : First(i)
  BY <1>2
<1>5. QED BY <1>3, <1>4 DEF checks

\* The policy answers every request with one of its codes.
THEOREM AnswersWithCode ==
    ASSUME NEW row, NEW request, NEW sends
    PROVE  Evaluate(row, request, sends) \in Codes
<1>1. PICK i \in 1..11 :
        Evaluate(row, request, sends) = Checks(row, request, sends)[i].code
  BY FirstDecides
<1>2. \A j \in 1..11 : Checks(row, request, sends)[j].code \in Codes
  BY DEF Checks, Codes
<1>3. QED BY <1>1, <1>2

\* What the policy allows has passed every check: it is the firm's or the actor's
\* own connection, in use, reviewed, within its hourly limit and not in preview.
THEOREM AllowsOnlyWhatPasses ==
    ASSUME NEW row, NEW request, NEW sends, Evaluate(row, request, sends) = "ok"
    PROVE  /\ OutboundEnabled /\ row.installed /\ row.status = "active"
           /\ request.capability \in row.capabilities /\ row.acknowledged
           /\ ~Personal(row, request) /\ ~AdminOnly(row, request) /\ ~OptedOut(request)
           /\ ~LimitReached(sends) /\ ~row.preview
<1> DEFINE checks == Checks(row, request, sends)
<1>1. PICK i \in 1..11 : checks[i].code = "ok" /\ \A j \in 1..(i - 1) : ~checks[j].holds
  BY FirstDecides
<1>2. \A j \in 1..10 : checks[j].code # "ok"
  BY DEF Checks
<1>3. i = 11
  BY <1>1, <1>2
<1>4. \A j \in 1..10 : ~checks[j].holds
  BY <1>1, <1>3
<1>5. /\ ~checks[1].holds /\ ~checks[2].holds /\ ~checks[3].holds /\ ~checks[4].holds
      /\ ~checks[5].holds /\ ~checks[6].holds /\ ~checks[7].holds /\ ~checks[8].holds
      /\ ~checks[9].holds /\ ~checks[10].holds
  BY <1>4
<1>6. /\ checks[1].holds = ~OutboundEnabled /\ checks[2].holds = ~row.installed
      /\ checks[3].holds = (row.status # "active")
      /\ checks[4].holds = (request.capability \notin row.capabilities)
      /\ checks[5].holds = ~row.acknowledged /\ checks[6].holds = Personal(row, request)
      /\ checks[7].holds = AdminOnly(row, request) /\ checks[8].holds = OptedOut(request)
      /\ checks[9].holds = LimitReached(sends) /\ checks[10].holds = row.preview
  BY DEF Checks
<1>7. QED BY <1>5, <1>6

----------------------------------------------------------------------------
\* Event delivery

Busy(w) == worker[w].step # "idle"
Pending(d) == delivery[d].status \in {"queued", "retrying"}

\* A delivery that has not settled has a retry left.
RetryLeft ==
    \A d \in Deliveries :
        delivery[d].status \notin SettledStatus => delivery[d].attempts < MaxAttempts

\* Each delivery is in one place at most: with the request that announces it, in
\* the queue or with one worker; and it is pending as long as it is in one.
OnePlace ==
    /\ \A d \in Deliveries :
        /\ emitter[d] \in {"none", "emitted"} => delivery[d].status = "none"
        /\ emitter[d] = "created" => Pending(d)
    /\ \A d \in queue : emitter[d] = "done" /\ Pending(d)
    /\ \A w \in Workers : Busy(w) =>
        /\ worker[w].delivery \in Deliveries \ queue
        /\ emitter[worker[w].delivery] = "done"
        /\ Pending(worker[w].delivery)
    /\ \A w1, w2 \in Workers :
        Busy(w1) /\ Busy(w2) /\ worker[w1].delivery = worker[w2].delivery => w1 = w2

\* A worker says "sent" only of an event that has reached the receiver.
SentArrived ==
    \A w \in Workers : Busy(w) /\ worker[w].result = "sent" => worker[w].delivery \in received

Inv == TypeOK /\ RetryLeft /\ OnePlace /\ SentArrived

LEMMA IdleType == IdleWorker \in Worker /\ ~(IdleWorker.step # "idle")
BY DEF IdleWorker, Worker

LEMMA InvInit == Init => Inv
<1> SUFFICES ASSUME Init PROVE Inv
  OBVIOUS
<1>1. delivery \in [Deliveries -> DeliveryRow]
  BY DeliveryAssumption DEF Init, DeliveryRow
<1>2. worker \in [Workers -> Worker] /\ \A w \in Workers : ~Busy(w)
  BY IdleType DEF Init, Busy
<1>3. recent \in Nat
  BY PolicyAssumption DEF Init
<1>4. crashes \in 0..MaxCrashes
  BY DeliveryAssumption DEF Init
<1>5. conn \in Settings /\ queue \subseteq Deliveries /\ received \subseteq Deliveries
      /\ emitter \in [Deliveries -> {"none", "emitted", "created", "done"}]
  BY DEF Init
<1>6. TypeOK
  BY <1>1, <1>2, <1>3, <1>4, <1>5 DEF TypeOK
<1>7. RetryLeft
  BY DeliveryAssumption DEF Init, RetryLeft
<1>8. OnePlace
  BY <1>2 DEF Init, OnePlace
<1>9. SentArrived
  BY <1>2 DEF SentArrived
<1>10. QED BY <1>6, <1>7, <1>8, <1>9 DEF Inv

\* A worker that has taken a delivery goes on with it, or drops it.
LEMMA WorkerGoesOn ==
    ASSUME Inv, NEW w \in Workers, Busy(w), NEW new \in Worker,
           worker' = [worker EXCEPT ![w] = new],
           new.step # "idle" => new.delivery = worker[w].delivery,
           new.step # "idle" /\ new.result = "sent" => worker[w].delivery \in received',
           UNCHANGED <<emitVars, delivery>>, received \subseteq received'
    PROVE  /\ worker' \in [Workers -> Worker]
           /\ RetryLeft' /\ OnePlace' /\ SentArrived'
<1>1. worker' \in [Workers -> Worker] /\ worker'[w] = new
      /\ \A v \in Workers \ {w} : worker'[v] = worker[v]
  BY DEF Inv, TypeOK
<1>2. \A v \in Workers : Busy(v)' => Busy(v) /\ worker'[v].delivery = worker[v].delivery
  BY <1>1 DEF Busy
<1>3. RetryLeft'
  BY DEF Inv, RetryLeft
<1>4. OnePlace'
  BY <1>2 DEF Inv, OnePlace, Pending, emitVars
<1>5. SentArrived'
  BY <1>1, <1>2 DEF Inv, SentArrived, Busy
<1>6. QED BY <1>1, <1>3, <1>4, <1>5

\* What an attempt makes of a delivery is a status of its own, and it is tried
\* again only if a retry is left.
LEMMA StatusAfterType ==
    ASSUME NEW result, NEW attempts \in Nat
    PROVE  /\ StatusAfter(result, attempts) \in SettledStatus \cup {"retrying"}
           /\ StatusAfter(result, attempts) = "retrying" => attempts < MaxAttempts
           /\ StatusAfter(result, attempts) = "sent" => result = "sent"
<1>1. CASE result = "sent"
  BY <1>1 DEF StatusAfter, SettledStatus
<1>2. CASE result = "preview_mode"
  BY <1>2 DEF StatusAfter, SettledStatus
<1>3. CASE result \in {"failed", "rate_limited"}
  BY <1>3 DEF StatusAfter, SettledStatus
<1>4. CASE result \notin {"sent", "preview_mode", "failed", "rate_limited"}
  BY <1>4 DEF StatusAfter, SettledStatus
<1>5. QED BY <1>1, <1>2, <1>3, <1>4

\* A process goes away only while the bound allows it.
LEMMA CrashType == ASSUME Inv, Crash PROVE crashes' \in 0..MaxCrashes
BY DeliveryAssumption DEF Inv, TypeOK, Crash

LEMMA InvStep == Inv /\ [Next]_vars => Inv'
<1> SUFFICES ASSUME Inv, [Next]_vars PROVE Inv'
  OBVIOUS
<1> USE DEF Inv
<1>1. ASSUME NEW row \in Settings, ChangeConnection(row) PROVE Inv'
  <2>1. TypeOK'
    BY <1>1 DEF ChangeConnection, TypeOK, emitVars
  <2>2. RetryLeft' /\ OnePlace' /\ SentArrived'
    BY <1>1 DEF ChangeConnection, RetryLeft, OnePlace, SentArrived, Busy, Pending, emitVars
  <2>3. QED BY <2>1, <2>2
<1>2. CASE HourPasses
  <2>1. TypeOK'
    BY <1>2 DEF HourPasses, TypeOK, emitVars
  <2>2. RetryLeft' /\ OnePlace' /\ SentArrived'
    BY <1>2 DEF HourPasses, RetryLeft, OnePlace, SentArrived, Busy, Pending, emitVars
  <2>3. QED BY <2>1, <2>2
<1>3. ASSUME NEW d \in Deliveries, Emit(d) \/ Withdraw(d) PROVE Inv'
  <2>1. PICK step \in {"emitted", "done"} : emitter' = [emitter EXCEPT ![d] = step]
    BY <1>3 DEF Emit, Withdraw
  <2>2. /\ UNCHANGED <<conn, delivery, queue, worker, recent, received, crashes>>
        /\ emitter[d] \in {"none", "emitted"}
    BY <1>3 DEF Emit, Withdraw
  <2>3. TypeOK'
    BY <2>1, <2>2 DEF TypeOK
  <2>4. RetryLeft' /\ SentArrived'
    BY <2>2 DEF RetryLeft, SentArrived, Busy
  <2>5. OnePlace'
    <3>1. \A e \in Deliveries : emitter[e] = "done" => emitter'[e] = "done"
      BY <2>1, <2>2 DEF TypeOK
    <3>2. \A e \in Deliveries : emitter'[e] # emitter[e] => emitter'[e] # "created"
                                /\ delivery[e].status = "none"
      BY <2>1, <2>2 DEF TypeOK, OnePlace
    <3>3. QED BY <2>2, <3>1, <3>2 DEF TypeOK, OnePlace, Busy, Pending
  <2>6. QED BY <2>3, <2>4, <2>5
<1>4. ASSUME NEW d \in Deliveries, CreateDelivery(d) PROVE Inv'
  <2>1. /\ emitter' \in [Deliveries -> {"none", "emitted", "created", "done"}]
        /\ delivery' \in [Deliveries -> DeliveryRow]
    BY <1>4 DEF CreateDelivery, TypeOK, DeliveryRow
  <2>2. TypeOK'
    BY <1>4, <2>1 DEF CreateDelivery, TypeOK
  <2>3. delivery[d].status = "none" /\ emitter[d] = "emitted"
    BY <1>4 DEF CreateDelivery, OnePlace
  <2>4. /\ delivery'[d].status = "queued" /\ delivery'[d].attempts = delivery[d].attempts
        /\ emitter'[d] = "created"
        /\ \A e \in Deliveries \ {d} : delivery'[e] = delivery[e] /\ emitter'[e] = emitter[e]
    BY <1>4 DEF CreateDelivery, TypeOK, DeliveryRow
  <2>5. RetryLeft'
    BY <2>3, <2>4 DEF RetryLeft, SettledStatus
  <2>6. OnePlace'
    BY <1>4, <2>3, <2>4 DEF CreateDelivery, TypeOK, OnePlace, Busy, Pending
  <2>7. SentArrived'
    BY <1>4 DEF CreateDelivery, SentArrived, Busy
  <2>8. QED BY <2>2, <2>5, <2>6, <2>7
<1>5. ASSUME NEW d \in Deliveries, EnqueueDelivery(d) \/ CrashEmitter(d) PROVE Inv'
  <2>1. /\ UNCHANGED <<conn, delivery, worker, recent, received>>
        /\ emitter[d] = "created" /\ emitter' = [emitter EXCEPT ![d] = "done"]
        /\ queue' \in {queue, queue \cup {d}}
        /\ crashes' \in 0..MaxCrashes
    BY <1>5, CrashType DEF EnqueueDelivery, CrashEmitter, TypeOK
  <2>2. TypeOK'
    BY <2>1 DEF TypeOK
  <2>3. RetryLeft' /\ SentArrived'
    BY <2>1 DEF RetryLeft, SentArrived, Busy
  <2>4. OnePlace'
    <3>1. emitter'[d] = "done" /\ \A e \in Deliveries \ {d} : emitter'[e] = emitter[e]
      BY <2>1 DEF TypeOK
    <3>2. Pending(d) /\ \A w \in Workers : Busy(w) => worker[w].delivery # d
      BY <2>1 DEF OnePlace
    <3>3. QED BY <2>1, <3>1, <3>2 DEF TypeOK, OnePlace, Busy, Pending
  <2>5. QED BY <2>2, <2>3, <2>4
<1>6. ASSUME NEW w \in Workers, NEW d \in Deliveries, Take(w, d) PROVE Inv'
  <2> DEFINE new == IF IsSettled(d) THEN IdleWorker
                    ELSE [step |-> "decide", delivery |-> d, conn |-> conn,
                          result |-> "none"]
  <2>1. new \in Worker
    BY IdleType DEF Worker, TypeOK
  <2>2. /\ new.step # "idle" => new.delivery = d
        /\ new.step # "idle" => new.result # "sent"
    BY IdleType
  <2>3. worker' = [worker EXCEPT ![w] = new]
    BY <1>6 DEF Take
  <2> HIDE DEF new
  <2>4. /\ worker' \in [Workers -> Worker] /\ worker'[w] = new
        /\ \A v \in Workers \ {w} : worker'[v] = worker[v]
    BY <2>1, <2>3 DEF TypeOK
  <2>5. TypeOK'
    BY <1>6, <2>4 DEF Take, TypeOK
  <2>6. RetryLeft'
    BY <1>6 DEF Take, RetryLeft
  <2>7. OnePlace'
    <3>1. d \in queue /\ emitter[d] = "done" /\ Pending(d)
          /\ \A v \in Workers : Busy(v) => worker[v].delivery # d
      BY <1>6 DEF Take, OnePlace
    <3>2. QED BY <1>6, <2>2, <2>4, <3>1 DEF Take, TypeOK, OnePlace, Busy, Pending
  <2>8. SentArrived'
    BY <1>6, <2>2, <2>4 DEF Take, SentArrived, Busy
  <2>9. QED BY <2>5, <2>6, <2>7, <2>8
<1>7. ASSUME NEW w \in Workers, Decide(w) PROVE Inv'
  <2> DEFINE code == Evaluate(worker[w].conn, Event, recent)
  <2> DEFINE new == [worker[w] EXCEPT !.step = IF code = "ok" THEN "call" ELSE "save",
                                      !.result = code]
  <2>1. code \in Codes
    BY AnswersWithCode
  <2>2. code # "sent"
    BY <2>1 DEF Codes
  <2> HIDE DEF code
  <2>3. new \in Worker /\ new.delivery = worker[w].delivery /\ new.result = code
    BY <2>1 DEF TypeOK, Worker
  <2>4. worker' = [worker EXCEPT ![w] = new] /\ Busy(w)
    BY <1>7 DEF Decide, Busy, TypeOK, code
  <2> HIDE DEF new
  <2>5. worker' \in [Workers -> Worker] /\ RetryLeft' /\ OnePlace' /\ SentArrived'
    BY <1>7, <2>2, <2>3, <2>4, WorkerGoesOn DEF Decide
  <2>6. TypeOK'
    BY <1>7, <2>5 DEF Decide, TypeOK, emitVars
  <2>7. QED BY <2>5, <2>6
<1>8. ASSUME NEW w \in Workers, Accepted(w) \/ NotAccepted(w) PROVE Inv'
  <2>1. Busy(w) /\ worker[w].delivery \in Deliveries
    BY <1>8 DEF Accepted, NotAccepted, Busy, OnePlace
  <2>2. PICK result \in {"sent", "failed"} :
            /\ worker' = [worker EXCEPT ![w].step = "log", ![w].result = result]
            /\ result = "sent" => worker[w].delivery \in received'
    BY <1>8 DEF Accepted, NotAccepted
  <2>3. /\ UNCHANGED <<conn, emitVars, delivery, recent, crashes>>
        /\ received \subseteq received' /\ received' \subseteq Deliveries
    BY <1>8, <2>1 DEF Accepted, NotAccepted, TypeOK
  <2> DEFINE new == [worker[w] EXCEPT !.step = "log", !.result = result]
  <2>4. new \in Worker /\ new.delivery = worker[w].delivery /\ new.result = result
    BY DEF TypeOK, Worker
  <2>5. worker' = [worker EXCEPT ![w] = new]
    BY <2>2 DEF TypeOK
  <2> HIDE DEF new
  <2>6. worker' \in [Workers -> Worker] /\ RetryLeft' /\ OnePlace' /\ SentArrived'
    BY <2>1, <2>2, <2>3, <2>4, <2>5, WorkerGoesOn
  <2>7. TypeOK'
    BY <2>3, <2>6 DEF TypeOK, emitVars
  <2>8. QED BY <2>6, <2>7
<1>9. ASSUME NEW w \in Workers, Log(w) PROVE Inv'
  <2> DEFINE new == [worker[w] EXCEPT !.step = "save"]
  <2>1. Busy(w) /\ recent' \in Nat
    BY <1>9 DEF Log, Busy, TypeOK
  <2>2. new \in Worker /\ new.delivery = worker[w].delivery
        /\ (new.result = "sent" => worker[w].delivery \in received)
    BY <2>1 DEF TypeOK, Worker, SentArrived
  <2>3. worker' = [worker EXCEPT ![w] = new]
    BY <1>9 DEF Log, TypeOK
  <2> HIDE DEF new
  <2>4. worker' \in [Workers -> Worker] /\ RetryLeft' /\ OnePlace' /\ SentArrived'
    BY <1>9, <2>1, <2>2, <2>3, WorkerGoesOn DEF Log
  <2>5. TypeOK'
    BY <1>9, <2>1, <2>4 DEF Log, TypeOK, emitVars
  <2>6. QED BY <2>4, <2>5
<1>10. ASSUME NEW w \in Workers, Save(w) PROVE Inv'
  <2> DEFINE d == worker[w].delivery
  <2> DEFINE attempts == delivery[d].attempts + 1
  <2> DEFINE status == StatusAfter(worker[w].result, attempts)
  <2> DEFINE new == IF status = "retrying" THEN [worker[w] EXCEPT !.step = "requeue"]
                    ELSE IdleWorker
  <2>1. Busy(w) /\ d \in Deliveries \ queue /\ emitter[d] = "done" /\ Pending(d)
    BY <1>10 DEF Save, Busy, OnePlace
  <2>2. delivery[d].attempts \in 0..MaxAttempts /\ delivery[d].attempts < MaxAttempts
    BY <2>1 DEF TypeOK, DeliveryRow, RetryLeft, Pending, SettledStatus
  <2>3. attempts \in 0..MaxAttempts
    BY <2>2, DeliveryAssumption
  <2>4. /\ status \in SettledStatus \cup {"retrying"}
        /\ status = "retrying" => attempts < MaxAttempts
    BY <2>3, StatusAfterType
  <2>5. new \in Worker /\ (new.step # "idle" => status = "retrying"
        /\ new.delivery = d /\ new.result = worker[w].result)
    BY IdleType DEF TypeOK, Worker
  <2>6. /\ worker' = [worker EXCEPT ![w] = new]
        /\ delivery' = [delivery EXCEPT ![d] = [status |-> status, attempts |-> attempts]]
        /\ UNCHANGED <<conn, emitVars, recent, received, crashes>>
    BY <1>10 DEF Save
  <2> HIDE DEF new, status, attempts, d
  <2>7. /\ worker' \in [Workers -> Worker] /\ worker'[w] = new
        /\ \A v \in Workers \ {w} : worker'[v] = worker[v]
    BY <2>5, <2>6 DEF TypeOK
  <2>8. [status |-> status, attempts |-> attempts] \in DeliveryRow
    BY <2>3, <2>4 DEF DeliveryRow
  <2>9. /\ delivery' \in [Deliveries -> DeliveryRow]
        /\ delivery'[d].status = status /\ delivery'[d].attempts = attempts
        /\ \A e \in Deliveries \ {d} : delivery'[e] = delivery[e]
    BY <2>1, <2>6, <2>8 DEF TypeOK
  <2>10. TypeOK'
    BY <2>6, <2>7, <2>9 DEF TypeOK, emitVars
  <2>11. RetryLeft'
    BY <2>4, <2>9 DEF RetryLeft
  <2>12. OnePlace'
    <3>1. \A v \in Workers \ {w} : Busy(v) => worker[v].delivery # d
      BY <2>1 DEF OnePlace, d
    <3>2. emitter' = emitter /\ queue' = queue
      BY <2>6 DEF emitVars
    <3>3. \A v \in Workers : Busy(v)' =>
            /\ Busy(v) /\ worker'[v].delivery = worker[v].delivery
            /\ v = w => status = "retrying"
      BY <2>1, <2>5, <2>7 DEF Busy, d
    <3>4. \A e \in Deliveries : Pending(e) => Pending(e)' \/ (e = d /\ status # "retrying")
      BY <2>9 DEF Pending
    <3>5. \A e \in Deliveries : emitter'[e] \in {"none", "emitted"} =>
                                delivery'[e].status = "none"
      BY <2>1, <2>9, <3>2 DEF OnePlace
    <3>6. \A e \in Deliveries : emitter'[e] = "created" => Pending(e)'
      BY <2>1, <3>2, <3>4 DEF OnePlace
    <3>7. \A e \in queue' : emitter'[e] = "done" /\ Pending(e)'
      BY <2>1, <3>2, <3>4 DEF OnePlace, TypeOK
    <3>8. \A v \in Workers : Busy(v)' =>
            /\ worker'[v].delivery \in Deliveries \ queue'
            /\ emitter'[worker'[v].delivery] = "done"
            /\ delivery'[worker'[v].delivery].status \in {"queued", "retrying"}
      <4> SUFFICES ASSUME NEW v \in Workers, Busy(v)'
                   PROVE  /\ worker'[v].delivery \in Deliveries \ queue'
                          /\ emitter'[worker'[v].delivery] = "done"
                          /\ delivery'[worker'[v].delivery].status \in {"queued", "retrying"}
        OBVIOUS
      <4>1. worker'[v].delivery = worker[v].delivery /\ Busy(v)
        BY <3>3
      <4>2. worker[v].delivery \in Deliveries \ queue /\ emitter[worker[v].delivery] = "done"
            /\ Pending(worker[v].delivery)
        BY <4>1 DEF OnePlace
      <4>3. CASE v = w
        BY <2>9, <3>2, <3>3, <4>1, <4>2, <4>3 DEF d
      <4>4. CASE v # w
        BY <2>9, <3>1, <3>2, <4>1, <4>2, <4>4 DEF Pending
      <4>5. QED BY <4>3, <4>4
    <3>9. \A v1, v2 \in Workers :
            Busy(v1)' /\ Busy(v2)' /\ worker'[v1].delivery = worker'[v2].delivery => v1 = v2
      BY <3>3 DEF OnePlace
    <3>10. QED BY <3>5, <3>6, <3>7, <3>8, <3>9 DEF OnePlace, Pending
  <2>13. SentArrived'
    BY <2>1, <2>5, <2>6, <2>7 DEF SentArrived, Busy, d
  <2>14. QED BY <2>10, <2>11, <2>12, <2>13
<1>11. ASSUME NEW w \in Workers, Requeue(w) PROVE Inv'
  <2> DEFINE d == worker[w].delivery
  <2>1. Busy(w) /\ d \in Deliveries \ queue /\ emitter[d] = "done" /\ Pending(d)
    BY <1>11 DEF Requeue, Busy, OnePlace
  <2>2. /\ worker' \in [Workers -> Worker] /\ ~Busy(w)'
        /\ \A v \in Workers \ {w} : worker'[v] = worker[v]
    BY <1>11, IdleType DEF Requeue, TypeOK, Busy
  <2>3. queue' = queue \cup {d}
    BY <1>11 DEF Requeue
  <2>4. TypeOK'
    BY <1>11, <2>1, <2>2, <2>3 DEF Requeue, TypeOK
  <2>5. RetryLeft'
    BY <1>11 DEF Requeue, RetryLeft
  <2>6. OnePlace'
    <3>1. \A v \in Workers : Busy(v)' => v # w /\ Busy(v) /\ worker'[v] = worker[v]
                                         /\ worker[v].delivery # d
      BY <2>1, <2>2 DEF OnePlace, Busy
    <3>2. QED BY <1>11, <2>1, <2>3, <3>1 DEF Requeue, OnePlace, Pending
  <2>7. SentArrived'
    BY <1>11, <2>2 DEF Requeue, SentArrived, Busy
  <2>8. QED BY <2>4, <2>5, <2>6, <2>7
<1>12. ASSUME NEW w \in Workers, CrashWorker(w) PROVE Inv'
  <2>1. CASE Busy(w)
    <3>1. worker' \in [Workers -> Worker] /\ RetryLeft' /\ OnePlace' /\ SentArrived'
      BY <1>12, <2>1, IdleType, WorkerGoesOn DEF CrashWorker
    <3>2. TypeOK'
      BY <1>12, <3>1, CrashType DEF CrashWorker, TypeOK, emitVars
    <3>3. QED BY <3>1, <3>2
  <2>2. CASE ~Busy(w)
    <3>1. /\ worker' \in [Workers -> Worker] /\ ~Busy(w)'
          /\ \A v \in Workers \ {w} : worker'[v] = worker[v]
      BY <1>12, IdleType DEF CrashWorker, TypeOK, Busy
    <3>2. TypeOK'
      BY <1>12, <3>1, CrashType DEF CrashWorker, TypeOK, emitVars
    <3>3. RetryLeft' /\ OnePlace' /\ SentArrived'
      BY <1>12, <3>1 DEF CrashWorker, RetryLeft, OnePlace, SentArrived, Busy, Pending, emitVars
    <3>4. QED BY <3>2, <3>3
  <2>3. QED BY <2>1, <2>2
<1>13. CASE UNCHANGED vars
  <2>1. TypeOK'
    BY <1>13 DEF vars, TypeOK
  <2>2. RetryLeft' /\ OnePlace' /\ SentArrived'
    BY <1>13 DEF vars, RetryLeft, OnePlace, SentArrived, Busy, Pending
  <2>3. QED BY <2>1, <2>2
<1>14. QED
  BY <1>1, <1>2, <1>3, <1>4, <1>5, <1>6, <1>7, <1>8, <1>9, <1>10, <1>11, <1>12, <1>13
  DEF Next, Announce, Work

\* Every row, task and worker keeps its shape: no delivery is tried more than
\* MAX_ATTEMPTS times, whoever crashes and however its attempts end.
THEOREM TypeCorrect == Spec => []TypeOK
<1>1. Inv => TypeOK
  BY DEF Inv
<1>2. QED BY <1>1, InvInit, InvStep, PTL DEF Spec

----------------------------------------------------------------------------
\* The hourly limit

\* The workers whose call the policy has allowed and whose SENT row is yet to come.
Senders == {w \in Workers : \/ worker[w].step = "call"
                            \/ worker[w].step = "log" /\ worker[w].result = "sent"}

\* A send under way counts as much as a row: each worker but the one that allowed
\* itself the last call below the limit may have one.
LimitInv == recent + Cardinality(Senders) <= HourlyLimit + Cardinality(Workers) - 1

LEMMA SendersFinite ==
    /\ IsFiniteSet(Workers) /\ Cardinality(Workers) \in Nat /\ Cardinality(Workers) >= 1
    /\ IsFiniteSet(Senders) /\ Cardinality(Senders) \in Nat
    /\ Cardinality(Senders) <= Cardinality(Workers)
    /\ IsFiniteSet(Senders') /\ Cardinality(Senders') \in Nat
    /\ Cardinality(Senders') <= Cardinality(Workers)
<1>1. Senders \subseteq Workers /\ Senders' \subseteq Workers
  BY DEF Senders
<1>2. IsFiniteSet(Workers) /\ Workers # {}
  BY DeliveryAssumption
<1>3. Cardinality(Workers) \in Nat /\ Cardinality(Workers) # 0
  BY <1>2, FS_CardinalityType, FS_EmptySet
<1>4. /\ IsFiniteSet(Senders) /\ Cardinality(Senders) <= Cardinality(Workers)
      /\ IsFiniteSet(Senders') /\ Cardinality(Senders') <= Cardinality(Workers)
  BY <1>1, <1>2, FS_Subset
<1>5. Cardinality(Senders) \in Nat /\ Cardinality(Senders') \in Nat
  BY <1>4, FS_CardinalityType
<1>6. QED BY <1>2, <1>3, <1>4, <1>5

\* With no new sender and no new row, the bound stays.
LEMMA FewerSenders ==
    ASSUME Inv, LimitInv, Senders' \subseteq Senders, recent' \in Nat, recent' <= recent
    PROVE  LimitInv'
<1>1. Cardinality(Senders') <= Cardinality(Senders)
  BY SendersFinite, FS_Subset
<1>2. QED BY <1>1, SendersFinite, PolicyAssumption DEF LimitInv, Inv, TypeOK

LEMMA LimitInit == Init => LimitInv
<1> SUFFICES ASSUME Init PROVE LimitInv
  OBVIOUS
<1>1. Senders = {}
  BY DEF Init, Senders, IdleWorker
<1>2. Cardinality(Senders) = 0
  BY <1>1, FS_EmptySet
<1>3. recent \in Nat /\ recent <= HourlyLimit
  BY PolicyAssumption DEF Init
<1>4. QED BY <1>2, <1>3, SendersFinite, PolicyAssumption DEF LimitInv

LEMMA LimitStep == Inv /\ Inv' /\ LimitInv /\ [Next]_vars => LimitInv'
<1> SUFFICES ASSUME Inv, Inv', LimitInv, [Next]_vars PROVE LimitInv'
  OBVIOUS
<1>1. recent \in Nat /\ recent' \in Nat /\ HourlyLimit \in Nat
  BY PolicyAssumption DEF Inv, TypeOK
<1>2. ASSUME UNCHANGED worker, recent' <= recent PROVE LimitInv'
  BY <1>1, <1>2, FewerSenders DEF Senders
<1>3. CASE \/ \E row \in Settings : ChangeConnection(row)
           \/ HourPasses
           \/ \E d \in Deliveries : Emit(d) \/ Withdraw(d) \/ Announce(d) \/ CrashEmitter(d)
           \/ UNCHANGED vars
  <2>1. UNCHANGED worker /\ recent' <= recent
    BY <1>1, <1>3 DEF ChangeConnection, HourPasses, Emit, Withdraw, Announce,
       CreateDelivery, EnqueueDelivery, CrashEmitter, vars
  <2>2. QED BY <1>2, <2>1
<1>4. ASSUME NEW w \in Workers, UNCHANGED recent,
             \A v \in Workers \ {w} : worker'[v] = worker[v],
             w \notin Senders' \/ w \in Senders
      PROVE  LimitInv'
  <2>1. Senders' \subseteq Senders
    BY <1>4 DEF Senders
  <2>2. QED BY <1>1, <1>4, <2>1, FewerSenders
<1>5. ASSUME NEW w \in Workers, NEW d \in Deliveries, Take(w, d) PROVE LimitInv'
  <2>1. \A v \in Workers \ {w} : worker'[v] = worker[v]
    BY <1>5 DEF Take, Inv, TypeOK
  <2>2. worker'[w].step \notin {"call", "log"}
    BY <1>5 DEF Take, Inv, TypeOK, IdleWorker
  <2>3. QED BY <1>4, <1>5, <2>1, <2>2 DEF Take, Senders
<1>6. ASSUME NEW w \in Workers, Decide(w) PROVE LimitInv'
  <2>1. /\ \A v \in Workers \ {w} : worker'[v] = worker[v]
        /\ worker'[w].step = IF Evaluate(worker[w].conn, Event, recent) = "ok"
                             THEN "call" ELSE "save"
    BY <1>6 DEF Decide, Inv, TypeOK, Worker
  <2>2. CASE Evaluate(worker[w].conn, Event, recent) = "ok"
    <3>1. ~LimitReached(recent)
      BY <2>2, AllowsOnlyWhatPasses
    <3>2. recent' = recent /\ recent < HourlyLimit
      BY <1>1, <1>6, <3>1 DEF Decide, LimitReached
    <3>3. QED BY <1>1, <3>2, SendersFinite DEF LimitInv
  <2>3. CASE Evaluate(worker[w].conn, Event, recent) # "ok"
    <3>1. worker'[w].step = "save"
      BY <2>1, <2>3
    <3>2. w \notin Senders' /\ UNCHANGED recent
      BY <1>6, <3>1 DEF Decide, Senders
    <3>3. QED BY <1>4, <2>1, <3>2
  <2>4. QED BY <2>2, <2>3
<1>7. ASSUME NEW w \in Workers, Accepted(w) \/ NotAccepted(w) PROVE LimitInv'
  <2>1. \A v \in Workers \ {w} : worker'[v] = worker[v]
    BY <1>7 DEF Accepted, NotAccepted, Inv, TypeOK
  <2>2. w \in Senders /\ UNCHANGED recent
    BY <1>7 DEF Accepted, NotAccepted, Senders
  <2>3. QED BY <1>4, <2>1, <2>2
<1>8. ASSUME NEW w \in Workers, Log(w) PROVE LimitInv'
  <2>1. \A v \in Workers \ {w} : worker'[v] = worker[v]
    BY <1>8 DEF Log, Inv, TypeOK
  <2>2. worker'[w].step = "save"
    BY <1>8 DEF Log, Inv, TypeOK, Worker
  <2>3. CASE worker[w].result = "sent"
    <3>1. w \in Senders /\ w \notin Senders' /\ recent' = recent + 1
      BY <1>8, <2>2, <2>3 DEF Log, Senders
    <3>2. Senders' = Senders \ {w}
      BY <2>1, <3>1 DEF Senders
    <3>3. Cardinality(Senders') = Cardinality(Senders) - 1
      BY <3>1, <3>2, SendersFinite, FS_RemoveElement
    <3>4. QED BY <1>1, <3>1, <3>3, SendersFinite DEF LimitInv
  <2>4. CASE worker[w].result # "sent"
    BY <1>4, <1>8, <2>1, <2>2, <2>4 DEF Log, Senders
  <2>5. QED BY <2>3, <2>4
<1>9. ASSUME NEW w \in Workers, Save(w) \/ Requeue(w) \/ CrashWorker(w) PROVE LimitInv'
  <2>1. \A v \in Workers \ {w} : worker'[v] = worker[v]
    BY <1>9 DEF Save, Requeue, CrashWorker, Inv, TypeOK
  <2>2. worker'[w].step \notin {"call", "log"} /\ UNCHANGED recent
    BY <1>9 DEF Save, Requeue, CrashWorker, Inv, TypeOK, Worker, IdleWorker
  <2>3. QED BY <1>4, <2>1, <2>2 DEF Senders
<1>10. QED
  BY <1>3, <1>5, <1>6, <1>7, <1>8, <1>9 DEF Next, Work

\* Workers that count at the same moment pass the hourly limit together, but never
\* by more than one call for each worker but one.
THEOREM LimitOvershoot == Spec => []LimitNearlyHeld
<1>1. Inv /\ LimitInv => LimitNearlyHeld
  BY SendersFinite, PolicyAssumption DEF Inv, TypeOK, LimitInv, LimitNearlyHeld
<1>2. QED BY <1>1, InvInit, InvStep, LimitInit, LimitStep, PTL DEF Spec

----------------------------------------------------------------------------
\* The outbox's promise

LEMMA PromiseInit == Init => Promise!Init
<1> SUFFICES ASSUME Init PROVE Promise!Init
  OBVIOUS
<1>1. \A d \in Deliveries : Outcome(d) = "none"
  BY DEF Init, Outcome
<1>2. QED BY <1>1 DEF Init, Promise!Init

\* Steps that leave the deliveries' statuses and the receiver alone are not seen.
LEMMA NotSeen ==
    ASSUME UNCHANGED <<delivery, received>>
    PROVE  UNCHANGED Promise!vars
BY DEF Outcome, Promise!vars

LEMMA PromiseStep == Inv /\ [Next]_vars => [Promise!Next]_Promise!vars
<1> SUFFICES ASSUME Inv, [Next]_vars PROVE [Promise!Next]_Promise!vars
  OBVIOUS
<1> DEFINE outcome == [d \in Deliveries |-> Outcome(d)]
<1>1. CASE UNCHANGED <<delivery, received>>
  BY <1>1, NotSeen
<1>2. ASSUME NEW d \in Deliveries, CreateDelivery(d) PROVE Promise!Next
  <2>1. delivery[d].status = "none" /\ delivery'[d].status = "queued"
        /\ \A e \in Deliveries \ {d} : delivery'[e] = delivery[e]
    BY <1>2 DEF CreateDelivery, Inv, TypeOK, OnePlace, DeliveryRow
  <2>2. outcome[d] = "none" /\ outcome' = [outcome EXCEPT ![d] = "pending"]
    BY <2>1 DEF Outcome
  <2>3. UNCHANGED received
    BY <1>2 DEF CreateDelivery
  <2>4. Promise!Announce(d)
    BY <2>2, <2>3 DEF Promise!Announce
  <2>5. QED BY <2>4 DEF Promise!Next
<1>3. ASSUME NEW w \in Workers, Accepted(w) \/ NotAccepted(w)
      PROVE  [Promise!Next]_Promise!vars
  <2> DEFINE d == worker[w].delivery
  <2>1. d \in Deliveries /\ Pending(d)
    BY <1>3 DEF Accepted, NotAccepted, Inv, OnePlace, Busy
  <2>2. outcome[d] = "pending"
    BY <2>1 DEF Outcome, Pending
  <2>3. UNCHANGED delivery /\ received' \in {received, received \cup {d}}
    BY <1>3 DEF Accepted, NotAccepted
  <2>4. outcome' = outcome
    BY <2>3 DEF Outcome
  <2>5. CASE received' = received
    BY <2>3, <2>5, NotSeen
  <2>6. CASE received' = received \cup {d}
    <3>1. Promise!Arrive(d)
      BY <2>2, <2>4, <2>6 DEF Promise!Arrive
    <3>2. QED BY <2>1, <3>1 DEF Promise!Next
  <2>7. QED BY <2>3, <2>5, <2>6
<1>4. ASSUME NEW w \in Workers, Save(w) PROVE [Promise!Next]_Promise!vars
  <2> DEFINE d == worker[w].delivery
  <2> DEFINE attempts == delivery[d].attempts + 1
  <2> DEFINE status == StatusAfter(worker[w].result, attempts)
  <2>1. d \in Deliveries /\ Pending(d) /\ Busy(w)
    BY <1>4 DEF Save, Inv, OnePlace, Busy
  <2>2. delivery' = [delivery EXCEPT ![d] = [status |-> status, attempts |-> attempts]]
        /\ UNCHANGED received
    BY <1>4 DEF Save
  <2>3. attempts \in Nat
    BY <2>1, DeliveryAssumption DEF Inv, TypeOK, DeliveryRow
  <2>4. /\ status \in SettledStatus \cup {"retrying"}
        /\ status = "sent" => d \in received
    BY <2>1, <2>3, StatusAfterType DEF Inv, SentArrived
  <2> HIDE DEF status, attempts
  <2>5. delivery'[d].status = status
        /\ \A e \in Deliveries \ {d} : delivery'[e] = delivery[e]
    BY <2>1, <2>2 DEF Inv, TypeOK
  <2>6. outcome[d] = "pending"
    BY <2>1 DEF Outcome, Pending
  <2>7. CASE status = "retrying"
    <3>1. \A e \in Deliveries : Outcome(e)' = Outcome(e)
      BY <2>1, <2>5, <2>7 DEF Outcome, Pending
    <3>2. QED BY <2>2, <3>1 DEF Promise!vars
  <2>8. CASE status \in SettledStatus
    <3>1. outcome' = [outcome EXCEPT ![d] = status]
      BY <2>1, <2>5, <2>8 DEF Outcome, SettledStatus
    <3>2. Promise!Settle(d, status) /\ status \in Promise!Outcomes
      BY <2>2, <2>4, <2>6, <2>8, <3>1 DEF Promise!Settle, Promise!Outcomes, SettledStatus
    <3>3. QED BY <2>1, <3>2 DEF Promise!Next
  <2>9. QED BY <2>4, <2>7, <2>8
<1>5. CASE \/ \E row \in Settings : ChangeConnection(row)
           \/ HourPasses
           \/ \E d \in Deliveries :
                Emit(d) \/ Withdraw(d) \/ EnqueueDelivery(d) \/ CrashEmitter(d)
           \/ \E w \in Workers : \/ \E d \in Deliveries : Take(w, d)
                                 \/ Decide(w) \/ Log(w) \/ Requeue(w) \/ CrashWorker(w)
           \/ UNCHANGED vars
  BY <1>1, <1>5 DEF ChangeConnection, HourPasses, Emit, Withdraw, EnqueueDelivery,
     CrashEmitter, Take, Decide, Log, Requeue, CrashWorker, vars
<1>6. QED
  BY <1>2, <1>3, <1>4, <1>5 DEF Next, Announce, Work

\* Whatever the workers, the staff and the crashes do, every delivery settles at most
\* once and for good, and as sent only when its event has reached the receiver.
THEOREM PromiseKept == Spec => KeepsPromise
<1>1. QED BY PromiseInit, InvInit, InvStep, PromiseStep, PTL
       DEF Spec, KeepsPromise, Promise!Spec
=============================================================================
