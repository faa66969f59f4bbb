-------------------------- MODULE IntegrationsProofs --------------------------
(***************************************************************************)
(* Proofs about what comes in and goes out between the CRM and providers,  *)
(* for any number of events, workers, installments, calls and days.        *)
(***************************************************************************)
EXTENDS TLAPS, MCIntegrations, FiniteSetTheorems, SequenceTheorems, WellFoundedInduction

----------------------------------------------------------------------------
\* The webhook inbox.  What makes HandledOnce inductive is where an event's task can be:
\* it is about to be queued, it waits, a worker has it, or it has been tried, and in one of
\* these places at most.

\* An event nobody has stored is nowhere.
NowhereYet ==
    \A e \in Events :
        event[e].status = "none" =>
            /\ e \notin posting /\ e \notin acked
            /\ tasks[e] = 0 /\ event[e].attempts = 0
            /\ \A w \in Workers : handling[w] # e

\* One that is about to be queued is in no other place.
NotQueuedYet ==
    \A e \in posting :
        /\ tasks[e] = 0 /\ event[e].attempts = 0
        /\ \A w \in Workers : handling[w] # e

\* Its payload is kept until an attempt has processed it.
PayloadKept ==
    \A e \in Events :
        /\ event[e].status \in {"none", "processed"} \/ event[e].payload
        /\ event[e].status = "processed" => event[e].attempts # 0

InboxInv == InboxTypeOK /\ NowhereYet /\ NotQueuedYet /\ PayloadKept /\ HandledOnce

LEMMA InboxInvInit == InboxInit => InboxInv
BY InboxAssumption
   DEF InboxInit, InboxInv, InboxTypeOK, NowhereYet, NotQueuedYet, PayloadKept, HandledOnce,
       NoRow, NoEvent, EventStatuses

\* Where the event of a worker, and that of a waiting task, are not (HandledOnce).
LEMMA InboxHandled ==
    ASSUME InboxInv, NEW w \in Workers, handling[w] # NoEvent
    PROVE  LET e == handling[w] IN
           /\ e \in Events /\ event[e].attempts = 0 /\ tasks[e] = 0
           /\ e \notin posting /\ event[e].status # "none"
           /\ \A v \in Workers : handling[v] = e => v = w
<1>1. PICK e \in Events : e = handling[w]
  BY DEF InboxInv, InboxTypeOK
<1>2. event[e].attempts \in Nat /\ tasks[e] \in Nat
  BY DEF InboxInv, InboxTypeOK
<1>3. event[e].attempts + tasks[e] <= 1 /\ tasks[e] # 1 /\ event[e].attempts # 1
  BY <1>1 DEF InboxInv, HandledOnce
<1>4. event[e].attempts = 0 /\ tasks[e] = 0
  BY <1>2, <1>3
<1>5. e \notin posting /\ event[e].status # "none"
  BY <1>1 DEF InboxInv, NotQueuedYet, NowhereYet
<1>6. \A v \in Workers : handling[v] = e => v = w
  BY <1>1 DEF InboxInv, HandledOnce
<1>7. QED BY <1>1, <1>4, <1>5, <1>6

LEMMA InboxWaiting ==
    ASSUME InboxInv, NEW e \in Events, tasks[e] > 0
    PROVE  /\ tasks[e] = 1 /\ event[e].attempts = 0
           /\ e \notin posting /\ event[e].status # "none"
           /\ \A v \in Workers : handling[v] # e
<1>1. event[e].attempts \in Nat /\ tasks[e] \in Nat
  BY DEF InboxInv, InboxTypeOK
<1>2. event[e].attempts + tasks[e] <= 1
  BY DEF InboxInv, HandledOnce
<1>3. tasks[e] = 1 /\ event[e].attempts = 0
  BY <1>1, <1>2
<1>4. e \notin posting /\ event[e].status # "none"
  BY <1>3 DEF InboxInv, NotQueuedYet, NowhereYet
<1>5. \A v \in Workers : handling[v] # e
  BY <1>3 DEF InboxInv, HandledOnce
<1>6. QED BY <1>3, <1>4, <1>5

LEMMA InboxInvStep == InboxInv /\ [InboxNext]_inboxVars => InboxInv'
<1> SUFFICES ASSUME InboxInv, [InboxNext]_inboxVars PROVE InboxInv'
  OBVIOUS
<1> USE InboxAssumption DEF InboxInv, InboxTypeOK, NowhereYet, NotQueuedYet, PayloadKept,
        HandledOnce, EventStatuses, NoEvent
<1>1. ASSUME NEW e \in Events, Refuse(e) PROVE InboxInv'
  BY <1>1 DEF Refuse, Post, inbox
<1>2. ASSUME NEW e \in Events, Receive(e) PROVE InboxInv'
  BY <1>2 DEF Receive, Post
<1>3. ASSUME NEW e \in Events, QueueTask(e) PROVE InboxInv'
  BY <1>3 DEF QueueTask
<1>4. ASSUME NEW e \in Events, Repeat(e) PROVE InboxInv'
  BY <1>4 DEF Repeat, Post
<1>5. ASSUME NEW e \in Events, StopBeforeQueueing(e) PROVE InboxInv'
  BY <1>5 DEF StopBeforeQueueing
<1>6. ASSUME NEW w \in Workers, NEW e \in Events, TaskForNothing(w, e) PROVE InboxInv'
  BY <1>6 DEF TaskForNothing
<1>7. ASSUME NEW w \in Workers, NEW e \in Events, TakeTask(w, e) PROVE InboxInv'
  <2>1. /\ tasks[e] = 1 /\ event[e].attempts = 0
        /\ e \notin posting /\ event[e].status # "none"
        /\ \A v \in Workers : handling[v] # e
    BY <1>7, InboxWaiting DEF TakeTask
  <2>2. InboxTypeOK'
    BY <1>7, <2>1 DEF TakeTask
  <2>3. NowhereYet' /\ NotQueuedYet' /\ PayloadKept'
    BY <1>7, <2>1 DEF TakeTask
  <2>4. HandledOnce'
    BY <1>7, <2>1 DEF TakeTask
  <2>5. QED BY <2>2, <2>3, <2>4
<1>8. ASSUME NEW w \in Workers, Process(w) \/ FailEvent(w) PROVE InboxInv'
  <2>1. PICK e \in Events : e = handling[w]
    BY <1>8 DEF Process, FailEvent
  <2>2. /\ event[e].attempts = 0 /\ tasks[e] = 0
        /\ e \notin posting /\ event[e].status # "none"
        /\ \A v \in Workers : handling[v] = e => v = w
    BY <1>8, <2>1, InboxHandled DEF Process, FailEvent
  <2>3. PICK row \in [status : EventStatuses, attempts : Nat, payload : BOOLEAN] :
            /\ event' = [event EXCEPT ![e] = row]
            /\ row.attempts = 1 /\ row.status # "none"
            /\ row.status = "processed" \/ row.payload
    <3>1. CASE Process(w)
      <4> DEFINE row == [status |-> "processed", attempts |-> event[e].attempts + 1, payload |-> FALSE]
      <4>1. event' = [event EXCEPT ![e] = row]
        BY <2>1, <3>1 DEF Process
      <4>2. row.attempts = 1 /\ row \in [status : EventStatuses, attempts : Nat, payload : BOOLEAN]
        BY <2>2
      <4>3. QED BY <4>1, <4>2
    <3>2. CASE FailEvent(w)
      <4> DEFINE row == [status |-> "failed", attempts |-> event[e].attempts + 1, payload |-> event[e].payload]
      <4>1. event' = [event EXCEPT ![e] = row]
        BY <2>1, <3>2 DEF FailEvent
      <4>2. row.attempts = 1 /\ row \in [status : EventStatuses, attempts : Nat, payload : BOOLEAN]
        BY <2>2
      <4>3. row.payload
        BY <2>2
      <4>4. QED BY <4>1, <4>2, <4>3
    <3>3. QED BY <1>8, <3>1, <3>2
  <2>4. /\ handling' = [handling EXCEPT ![w] = NoEvent]
        /\ UNCHANGED <<accepting, posting, tasks, acked, posts, stopped>>
    BY <1>8 DEF Process, FailEvent
  <2>5. InboxTypeOK'
    BY <2>3, <2>4
  <2>6. NowhereYet' /\ NotQueuedYet' /\ PayloadKept'
    BY <2>2, <2>3, <2>4
  <2>7. HandledOnce'
    BY <2>2, <2>3, <2>4
  <2>8. QED BY <2>5, <2>6, <2>7
<1>9. ASSUME NEW w \in Workers, StopWorker(w) PROVE InboxInv'
  BY <1>9 DEF StopWorker
<1>10. ASSUME NEW on \in BOOLEAN, SetAccepting(on) PROVE InboxInv'
  BY <1>10 DEF SetAccepting, inbox
<1>11. CASE UNCHANGED inboxVars
  BY <1>11 DEF inboxVars
<1>12. QED
  BY <1>1, <1>2, <1>3, <1>4, <1>5, <1>6, <1>7, <1>8, <1>9, <1>10, <1>11
     DEF InboxNext, Request, Work

\* An acknowledged event is kept until it is processed, and handed to one worker, once,
\* however often the provider repeats it and whatever process goes away.
THEOREM InboxKept == InboxSpec => []InboxKeeps
<1>1. InboxInv => InboxKeeps
  BY DEF InboxInv, InboxKeeps, AckedIsKept, NowhereYet, PayloadKept, InboxTypeOK
<1>2. QED BY <1>1, InboxInvInit, InboxInvStep, PTL DEF InboxSpec

----------------------------------------------------------------------------
\* Email reminders.  What makes EmailedOnce inductive is that the claim outlives the task:
\* an installment has a task only under its claim, and before it was emailed.

TaskBeforeEmail == \A i \in All : task[i] # "none" => mails[i] = 0

RemindInv == RemindTypeOK /\ TaskBeforeEmail /\ RemindersInOrder

LEMMA RemindInvInit == RemindInit => RemindInv
<1> SUFFICES ASSUME RemindInit PROVE RemindInv
  OBVIOUS
<1>1. RemindTypeOK
  BY RemindersAssumption DEF RemindInit, RemindTypeOK, All
<1>2. TaskBeforeEmail /\ EmailedOnce /\ ShownAsSent /\ DueWhenSent
  BY DEF RemindInit, TaskBeforeEmail, EmailedOnce, ShownAsSent, DueWhenSent
<1>3. QED BY <1>1, <1>2 DEF RemindInv, RemindersInOrder

LEMMA RemindInvStep == RemindInv /\ [RemindNext]_remindVars => RemindInv'
<1> SUFFICES ASSUME RemindInv, [RemindNext]_remindVars PROVE RemindInv'
  OBVIOUS
<1> USE RemindersAssumption DEF RemindInv, RemindersInOrder, RemindTypeOK, TaskBeforeEmail,
        EmailedOnce, ShownAsSent, DueWhenSent
<1>1. CASE NextDay
  BY <1>1 DEF NextDay
<1>2. CASE Pay \/ CancelPlan \/ SwitchEmails
  <2>1. PICK status \in [canceled : BOOLEAN, emails : BOOLEAN], covered \in 0..Installments :
            Becomes(status, covered)
    BY <1>2 DEF Pay, CancelPlan, SwitchEmails
  <2>2. QED BY <2>1 DEF Becomes
<1>3. ASSUME NEW w \in Tickers, LookForDue(w) PROVE RemindInv'
  BY <1>3 DEF LookForDue, FoundDue
<1>4. ASSUME NEW w \in Tickers, StopTick(w) PROVE RemindInv'
  BY <1>4 DEF StopTick
<1>5. ASSUME NEW w \in Tickers, NEW i \in All, Claim(w, i) PROVE RemindInv'
  BY <1>5 DEF Claim
<1>6. ASSUME NEW i \in All, LookAgain(i) PROVE RemindInv'
  BY <1>6 DEF LookAgain
<1>7. ASSUME NEW i \in All, SendEmail(i) PROVE RemindInv'
  BY <1>7 DEF SendEmail
<1>8. ASSUME NEW i \in All, NoteNotSent(i) PROVE RemindInv'
  BY <1>8 DEF NoteNotSent
<1>9. ASSUME NEW i \in All, StopTask(i) PROVE RemindInv'
  BY <1>9 DEF StopTask
<1>10. CASE UNCHANGED remindVars
  BY <1>10 DEF remindVars
<1>11. QED
  BY <1>1, <1>2, <1>3, <1>4, <1>5, <1>6, <1>7, <1>8, <1>9, <1>10 DEF RemindNext

\* However many workers look for due installments, a client is emailed once for each, only
\* for one still due, and what staff are shown of it is so.
THEOREM RemindersKept == RemindSpec => []RemindersInOrder
<1>1. RemindInv => RemindersInOrder
  BY DEF RemindInv
<1>2. QED BY <1>1, RemindInvInit, RemindInvStep, PTL DEF RemindSpec

----------------------------------------------------------------------------
\* One outbound action.  What makes DoneAsRecorded inductive is what is known between two
\* requests: all that was made for the call went unheard, as many times as it was tried at
\* most, and a draft is sent off by its own ID.

Thing == [call : 1..MaxCalls, key : (1..MaxCalls) \X (0..3), out : BOOLEAN]
Tries == 0..3
CallRecord == [at : {"idle", "asking", "done"}, number : 0..MaxCalls, tried : Tries,
               draft : Nat, ref : Nat, result : {"none", "sent", "failed"}]
Outcome == [call : 1..MaxCalls, status : {"sent", "failed"}, ref : Nat]

\* What the provider has made and sent off for the call under way.
Mine == OutOf(call.number)

\* Every thing and every outcome is an earlier call's, or this one's, and the key of a thing
\* is the one its call made.
Numbered ==
    /\ call.at # "idle" => call.number > 0
    /\ call.at = "asking" => call.tried <= use.retries
    /\ \A i \in ThingIds :
          /\ things[i].call <= call.number
          /\ things[i].key = <<things[i].call, 0>>
          /\ use.how # "staged" => things[i].out
    /\ \A j \in 1..Len(outbox) :
          /\ outbox[j].call <= call.number
          /\ call.at # "idle" => outbox[j].call < call.number

\* What was made in a request that is to be repeated went unheard.
WhileAsking ==
    call.at = "asking" =>
        /\ Mine \subseteq unheard
        /\ use.how # "staged" => call.draft = 0
        /\ use.how \in {"plain", "once"} => Cardinality(Mine) <= call.tried
        /\ use.how = "staged" /\ call.draft = 0 => Mine = {}
        /\ call.draft # 0 =>
              /\ call.draft \in ThingIds /\ things[call.draft].call = call.number
              /\ Mine \subseteq {call.draft}

WhenDone ==
    call.at = "done" =>
        /\ call.result \in {"sent", "failed"}
        /\ call.result = "sent" => call.ref \in ThingIds /\ call.ref \in Mine
        /\ call.result = "failed" => Mine \subseteq unheard

CallInv ==
    /\ ProviderCallsTypeOK /\ call \in CallRecord
    /\ Numbered /\ WhileAsking /\ WhenDone /\ DoneAsRecorded

LEMMA Uses ==
    ASSUME use \in Connectors
    PROVE  /\ use.how \in {"plain", "staged", "keyed", "once"} /\ use.retries \in 0..3
           /\ use.how = "once" => use.retries = 0
BY DEF Connectors, Client, Twilio, WhatsApp, Dialpad, Gmail, GoogleEvent, OutlookEvent, Zoom,
       Anthropic, OpenAI, OpenRouter, AIServer, ChatGPT, DeepL, CourtListener, Outlook,
       Documenso, Stripe, Mailbox, MailServer, Receiver

LEMMA OutOfFinite ==
    ASSUME ProviderCallsTypeOK, NEW n, NEW S \in SUBSET OutOf(n)
    PROVE  IsFiniteSet(S) /\ Cardinality(S) \in Nat /\ Cardinality(S) <= Cardinality(OutOf(n))
<1>1. Len(things) \in Nat
  BY DEF ProviderCallsTypeOK
<1>2. IsFiniteSet(1..Len(things))
  BY <1>1, FS_Interval
<1>3. IsFiniteSet(OutOf(n))
  BY <1>2, FS_Subset DEF OutOf, ThingIds
<1>4. QED BY <1>3, FS_Subset, FS_CardinalityType

LEMMA Elements ==
    ASSUME ProviderCallsTypeOK
    PROVE  /\ things \in Seq(Thing) /\ \A i \in ThingIds : things[i] \in Thing
           /\ outbox \in Seq(Outcome) /\ \A j \in 1..Len(outbox) : outbox[j] \in Outcome
<1>1. things \in Seq(Thing) /\ outbox \in Seq(Outcome)
  BY DEF ProviderCallsTypeOK, Thing, Outcome
<1>2. QED BY <1>1 DEF ThingIds

LEMMA CallInvInit == ProviderCallsInit => CallInv
<1> SUFFICES ASSUME ProviderCallsInit PROVE CallInv
  OBVIOUS
<1>1. ProviderCallsTypeOK /\ call \in CallRecord /\ Len(things) = 0 /\ Len(outbox) = 0
  BY ProviderCallsAssumption DEF ProviderCallsInit, ProviderCallsTypeOK, CallRecord, Tries, Idle, ThingIds
<1>2. Numbered /\ WhileAsking /\ WhenDone /\ SentWasDone /\ FailedWasNot /\ DoneOnce
  BY <1>1 DEF ProviderCallsInit, Idle, Numbered, WhileAsking, WhenDone, SentWasDone, FailedWasNot, DoneOnce, ThingIds
<1>3. QED BY <1>1, <1>2 DEF CallInv, DoneAsRecorded

LEMMA EarlierCallsKept ==
    ASSUME CallInv, call.at = "asking",
           ProviderCallsTypeOK', call' \in CallRecord, call'.at # "idle",
           UNCHANGED <<use, outbox, call.number>>,
           unheard \subseteq unheard', ThingIds \subseteq ThingIds',
           \A m \in 1..(call.number - 1) : OutOf(m)' = OutOf(m),
           Numbered', WhileAsking', WhenDone',
           Cardinality(Mine' \ unheard') <= 1,
           Cardinality(Mine') <= IF use.how = "plain" THEN use.retries + 1 ELSE 1
    PROVE  CallInv'
<1>1. call.number \in Nat /\ call.number > 0 /\ Len(outbox) \in Nat
  BY DEF CallInv, CallRecord, Numbered, ProviderCallsTypeOK
<1>2. \A j \in 1..Len(outbox) :
          outbox[j].call \in 1..(call.number - 1) /\ OutOf(outbox[j].call)' = OutOf(outbox[j].call)
  <2> TAKE j \in 1..Len(outbox)
  <2>1. outbox[j] \in Outcome
    BY Elements DEF CallInv
  <2>2. outbox[j].call \in Nat \ {0} /\ outbox[j].call < call.number
    BY <2>1, ProviderCallsAssumption DEF Outcome, CallInv, Numbered
  <2>3. outbox[j].call \in 1..(call.number - 1)
    BY <1>1, <2>2
  <2>4. QED BY <2>3
<1>3. SentWasDone'
  BY <1>2 DEF CallInv, DoneAsRecorded, SentWasDone
<1>4. FailedWasNot'
  BY <1>2 DEF CallInv, DoneAsRecorded, FailedWasNot
<1>5. ASSUME NEW m \in 1..call.number
      PROVE  /\ Cardinality(OutOf(m)' \ unheard') <= 1
             /\ Cardinality(OutOf(m)') <= IF use.how = "plain" THEN use.retries + 1 ELSE 1
  <2>1. CASE m = call.number
    BY <2>1 DEF Mine
  <2>2. CASE m # call.number
    <3>1. OutOf(m)' = OutOf(m)
      BY <1>1, <2>2
    <3>2. /\ Cardinality(OutOf(m) \ unheard) <= 1
          /\ Cardinality(OutOf(m)) <= IF use.how = "plain" THEN use.retries + 1 ELSE 1
      BY DEF CallInv, DoneAsRecorded, DoneOnce
    <3>3. OutOf(m) \ unheard' \subseteq OutOf(m) \ unheard
      OBVIOUS
    <3>4. IsFiniteSet(OutOf(m) \ unheard)
      BY OutOfFinite DEF CallInv
    <3>5. /\ Cardinality(OutOf(m) \ unheard') <= Cardinality(OutOf(m) \ unheard)
          /\ Cardinality(OutOf(m) \ unheard') \in Nat /\ Cardinality(OutOf(m) \ unheard) \in Nat
      BY <3>3, <3>4, FS_Subset, FS_CardinalityType
    <3>6. QED BY <3>1, <3>2, <3>5
  <2>3. QED BY <2>1, <2>2
<1>6. DoneOnce'
  BY <1>5 DEF DoneOnce
<1>7. QED BY <1>3, <1>4, <1>6 DEF CallInv, DoneAsRecorded

\* What the client makes of an answer: the connector goes on as it would, asks again or
\* gives up.
LEMMA Answered ==
    ASSUME CallInv, call.at = "asking", NEW answer \in Answers, NEW made \in CallRecord,
           call' = AfterAnswer(answer, made)
    PROVE  /\ call' \in CallRecord
           /\ answer = "ok" => call' = made
           /\ answer # "ok" =>
                 /\ call'.number = call.number /\ call'.draft = call.draft
                 /\ call'.ref \in {0, call.ref}
                 /\ \/ /\ call'.at = "asking" /\ call'.tried = call.tried + 1
                       /\ call.tried < use.retries
                    \/ call'.at = "done" /\ call'.result = "failed"
<1>1. use.retries \in 0..3 /\ call \in CallRecord
  BY Uses DEF CallInv, ProviderCallsTypeOK
<1>2. CASE answer = "ok"
  BY <1>2 DEF AfterAnswer
<1>3. CASE answer # "ok" /\ AskAgain(answer)
  BY <1>1, <1>3 DEF AfterAnswer, AskAgain, CallRecord, Tries
<1>4. CASE answer # "ok" /\ ~AskAgain(answer)
  BY <1>1, <1>4 DEF AfterAnswer, Finish, CallRecord
<1>5. QED BY <1>2, <1>3, <1>4

LEMMA MineBound ==
    ASSUME CallInv, call.at = "asking"
    PROVE  /\ Mine \subseteq unheard /\ Cardinality(Mine \ unheard) = 0
           /\ Cardinality(Mine) \in Nat
           /\ Cardinality(Mine) <= IF use.how = "plain" THEN use.retries + 1 ELSE 1
<1>1. Mine \subseteq unheard /\ Mine \ unheard = {}
  BY DEF CallInv, WhileAsking
<1>2. call.number \in 1..call.number
  BY DEF CallInv, Numbered, CallRecord
<1>3. Cardinality(Mine) <= IF use.how = "plain" THEN use.retries + 1 ELSE 1
  BY <1>2 DEF CallInv, DoneAsRecorded, DoneOnce, Mine
<1>4. Cardinality(Mine) \in Nat
  BY OutOfFinite DEF CallInv, Mine
<1>5. QED BY <1>1, <1>3, <1>4, FS_EmptySet

\* An answer after which the provider has nothing new.
LEMMA NothingNew ==
    ASSUME CallInv, call.at = "asking", NEW answer \in Answers, NEW id \in Nat,
           UNCHANGED <<use, things, unheard, outbox>>,
           call' = AfterAnswer(answer, Finish("sent", id)),
           answer = "ok" => id \in Mine
    PROVE  CallInv'
<1>1. call \in CallRecord /\ Finish("sent", id) \in CallRecord
  BY DEF CallInv, CallRecord, Finish
<1>2. /\ call' \in CallRecord /\ call'.number = call.number /\ call'.draft = call.draft
      /\ \/ call'.at = "asking" /\ call'.tried = call.tried + 1 /\ call.tried < use.retries
         \/ call'.at = "done" /\ call'.result = "failed"
         \/ call'.at = "done" /\ call'.result = "sent" /\ call'.ref = id /\ answer = "ok"
      /\ call'.ref \in {0, call.ref} \/ (call'.ref = id /\ answer = "ok")
  <2>1. /\ Finish("sent", id).number = call.number /\ Finish("sent", id).draft = call.draft
        /\ Finish("sent", id).at = "done" /\ Finish("sent", id).result = "sent"
        /\ Finish("sent", id).ref = id
    BY <1>1 DEF Finish, CallRecord
  <2>2. QED BY <1>1, <2>1, Answered
<1>3. ThingIds' = ThingIds /\ Mine' = Mine /\ \A m : OutOf(m)' = OutOf(m)
  BY <1>2 DEF ThingIds, OutOf, Mine
<1>4. Mine \subseteq ThingIds
  BY DEF Mine, OutOf
<1>5. ProviderCallsTypeOK'
  <2>1. call'.ref \in 0..Len(things)
    <3>1. call.ref \in 0..Len(things) /\ Len(things) \in Nat
      BY DEF CallInv, ProviderCallsTypeOK
    <3>2. id \in 0..Len(things) \/ answer # "ok"
      BY <1>4, <3>1 DEF ThingIds
    <3>3. QED BY <1>2, <3>1, <3>2
  <2>2. QED BY <1>2, <2>1, <1>3 DEF CallInv, ProviderCallsTypeOK, CallRecord, Tries
<1>6. Numbered'
  <2>1. call.tried \in Nat /\ use.retries \in Nat /\ call.number > 0
    BY Uses DEF CallInv, ProviderCallsTypeOK, Numbered
  <2>2. call'.at = "asking" => call'.tried <= use.retries
    BY <1>2, <2>1
  <2>3. QED BY <1>2, <1>3, <2>1, <2>2 DEF CallInv, Numbered
<1>7. WhileAsking'
  BY <1>1, <1>2, <1>3, MineBound DEF CallInv, WhileAsking, CallRecord, Tries
<1>8. WhenDone'
  BY <1>2, <1>3, <1>4, MineBound DEF WhenDone
<1>9. QED BY <1>2, <1>3, <1>5, <1>6, <1>7, <1>8, MineBound, EarlierCallsKept

LEMMA MadeThing ==
    ASSUME CallInv, call.at = "asking", NEW out \in BOOLEAN,
           things' = Append(things, [call |-> call.number, key |-> Key, out |-> out])
    PROVE  LET new == Len(things) + 1 IN
           /\ things' \in Seq(Thing) /\ Len(things') = new
           /\ ThingIds' = ThingIds \cup {new} /\ new \notin ThingIds
           /\ \A i \in ThingIds : things'[i] = things[i]
           /\ things'[new] = [call |-> call.number, key |-> Key, out |-> out]
           /\ \A n : OutOf(n)' = IF out /\ n = call.number THEN OutOf(n) \cup {new} ELSE OutOf(n)
<1> DEFINE new == Len(things) + 1
           thing == [call |-> call.number, key |-> Key, out |-> out]
<1>1. call.number \in 1..MaxCalls
  BY ProviderCallsAssumption DEF CallInv, CallRecord, Numbered
<1>2. thing \in Thing /\ thing.call = call.number /\ thing.out = out
  BY <1>1 DEF Thing, Key
<1>3. things \in Seq(Thing) /\ things' = Append(things, thing)
  BY Elements DEF CallInv
<1> HIDE DEF thing
<1>4. things' \in Seq(Thing) /\ Len(things') = new /\ things'[new] = thing
  BY <1>2, <1>3
<1>5. \A i \in ThingIds : things'[i] = things[i]
  BY <1>2, <1>3 DEF ThingIds
<1>6. ThingIds' = ThingIds \cup {new} /\ new \notin ThingIds
  BY <1>3, <1>4 DEF ThingIds
<1>7. ASSUME NEW n
      PROVE  OutOf(n)' = IF out /\ n = call.number THEN OutOf(n) \cup {new} ELSE OutOf(n)
  <2>1. \A i \in ThingIds : i \in OutOf(n)' <=> i \in OutOf(n)
    BY <1>5, <1>6 DEF OutOf
  <2>2. new \in OutOf(n)' <=> out /\ n = call.number
    BY <1>2, <1>4, <1>6 DEF OutOf
  <2>3. OutOf(n) \subseteq ThingIds /\ OutOf(n)' \subseteq ThingIds'
    BY DEF OutOf
  <2>4. CASE out /\ n = call.number
    BY <1>6, <2>1, <2>2, <2>3, <2>4
  <2>5. CASE ~(out /\ n = call.number)
    <3>1. OutOf(n)' = OutOf(n)
      BY <1>6, <2>1, <2>2, <2>3, <2>5
    <3>2. QED BY <2>5, <3>1
  <2>6. QED BY <2>4, <2>5
<1>8. QED BY <1>4, <1>5, <1>6, <1>7 DEF thing

\* An answer after which one more of the provider's things is out.
LEMMA OneMoreOut ==
    ASSUME CallInv, call.at = "asking", NEW answer \in Answers,
           UNCHANGED <<use, outbox>>, NEW d \in ThingIds',
           things' \in Seq(Thing), ThingIds \subseteq ThingIds',
           \A i \in ThingIds' :
              /\ things'[i].call <= call.number
              /\ things'[i].key = <<things'[i].call, 0>>
              /\ use.how # "staged" => things'[i].out,
           \A n : OutOf(n)' = IF n = call.number THEN OutOf(n) \cup {d} ELSE OutOf(n),
           Hear(answer, d), call' = AfterAnswer(answer, Finish("sent", d)),
           use.how = "staged" =>
              /\ d = call.draft /\ Mine \subseteq {d} /\ things'[d].call = call.number,
           use.how = "keyed" => Mine = {}
    PROVE  CallInv'
<1>1. /\ call \in CallRecord /\ Finish("sent", d) \in CallRecord
      /\ d \in Nat /\ Len(things) \in Nat /\ Len(things') \in Nat /\ Len(things) <= Len(things')
  <2>1. Len(things) \in Nat /\ Len(things') \in Nat
    BY Elements DEF CallInv
  <2>2. d \in Nat /\ Len(things) <= Len(things')
    BY <2>1 DEF ThingIds
  <2>3. QED BY <2>1, <2>2 DEF CallInv, CallRecord, Finish
<1>2. /\ call' \in CallRecord /\ call'.number = call.number /\ call'.draft = call.draft
      /\ \/ answer # "ok" /\ call'.at = "asking" /\ call'.tried = call.tried + 1 /\ call.tried < use.retries
         \/ answer # "ok" /\ call'.at = "done" /\ call'.result = "failed"
         \/ call'.at = "done" /\ call'.result = "sent" /\ call'.ref = d /\ answer = "ok"
      /\ call'.ref \in {0, call.ref} \/ (call'.ref = d /\ answer = "ok")
  <2>1. /\ Finish("sent", d).number = call.number /\ Finish("sent", d).draft = call.draft
        /\ Finish("sent", d).at = "done" /\ Finish("sent", d).result = "sent"
        /\ Finish("sent", d).ref = d
    BY <1>1 DEF Finish, CallRecord
  <2>2. QED BY <1>1, <2>1, Answered
<1>3. Mine' = Mine \cup {d}
  BY <1>2 DEF Mine
<1>4. unheard' = IF answer = "ok" THEN unheard ELSE unheard \cup {d}
  BY DEF Hear
<1>5. ProviderCallsTypeOK'
  <2>1. call'.ref \in 0..Len(things') /\ call'.draft \in 0..Len(things')
    BY <1>1, <1>2 DEF CallInv, ProviderCallsTypeOK, ThingIds
  <2>2. unheard' \subseteq ThingIds'
    BY <1>4 DEF CallInv, ProviderCallsTypeOK
  <2>3. things' \in Seq([call : 1..MaxCalls, key : (1..MaxCalls) \X (0..3), out : BOOLEAN])
    BY DEF Thing
  <2>4. QED BY <1>2, <2>1, <2>2, <2>3 DEF CallInv, ProviderCallsTypeOK, CallRecord, Tries
<1>6. call.tried \in Nat /\ use.retries \in Nat /\ call.number > 0 /\ call.tried <= use.retries
  <2>1. use \in Connectors /\ call.tried \in 0..3
    BY DEF CallInv, ProviderCallsTypeOK
  <2>2. use.retries \in 0..3
    BY <2>1, Uses
  <2>3. call.number > 0 /\ call.tried <= use.retries
    BY DEF CallInv, Numbered
  <2>4. QED BY <2>1, <2>2, <2>3
<1>7. Numbered'
  <2>1. call'.at = "asking" => call'.tried <= use.retries
    BY <1>2, <1>6
  <2>2. QED BY <1>2, <1>6, <2>1 DEF CallInv, Numbered
<1>8. /\ IsFiniteSet(Mine) /\ Cardinality(Mine) \in Nat /\ Cardinality(Mine') \in Nat
      /\ Cardinality(Mine') <= Cardinality(Mine) + 1
      /\ Mine \subseteq {d} => Cardinality(Mine') = 1
  <2>1. IsFiniteSet(Mine)
    BY OutOfFinite DEF CallInv, Mine
  <2>2. Mine \subseteq {d} => Mine' = {d}
    BY <1>3
  <2>3. Cardinality({d}) = 1
    BY FS_Singleton
  <2>4. IsFiniteSet(Mine) /\ IsFiniteSet(Mine \cup {d})
    BY <2>1, FS_AddElement
  <2>5. Cardinality(Mine \cup {d}) = IF d \in Mine THEN Cardinality(Mine) ELSE Cardinality(Mine) + 1
    BY <2>1, FS_AddElement
  <2>6. Cardinality(Mine) \in Nat
    BY <2>1, FS_CardinalityType
  <2>7. Cardinality(Mine') = Cardinality(Mine \cup {d})
    BY <1>3
  <2>8. Mine \subseteq {d} => Cardinality(Mine') = 1
    BY <2>2, <2>3
  <2>9. Cardinality(Mine') \in Nat /\ Cardinality(Mine') <= Cardinality(Mine) + 1
    BY <2>5, <2>6, <2>7
  <2>10. QED BY <2>1, <2>6, <2>8, <2>9
<1>9. Cardinality(Mine') <= IF use.how = "plain" THEN use.retries + 1 ELSE 1
  <2>1. CASE use.how = "plain"
    <3>1. Cardinality(Mine) <= call.tried
      BY <2>1 DEF CallInv, WhileAsking
    <3>2. QED BY <1>6, <1>8, <2>1, <3>1
  <2>2. CASE use.how = "once"
    <3>1. Cardinality(Mine) <= call.tried /\ use.retries = 0
      BY <2>2, Uses DEF CallInv, WhileAsking, ProviderCallsTypeOK
    <3>2. QED BY <1>6, <1>8, <2>2, <3>1
  <2>3. CASE use.how \in {"staged", "keyed"}
    BY <1>8, <2>3
  <2>4. QED BY <2>1, <2>2, <2>3, Uses DEF CallInv, ProviderCallsTypeOK
<1>10. Cardinality(Mine' \ unheard') <= 1
  <2>1. Mine' \ unheard' = {} \/ Mine' \ unheard' = {d}
    BY <1>3, <1>4, MineBound
  <2>2. Cardinality({}) = 0 /\ Cardinality({d}) = 1
    BY FS_EmptySet, FS_Singleton
  <2>3. Cardinality(Mine' \ unheard') = 0 \/ Cardinality(Mine' \ unheard') = 1
    BY <2>1, <2>2
  <2>4. QED BY <2>3
<1>11. WhileAsking'
  <2>1. SUFFICES ASSUME call'.at = "asking" PROVE WhileAsking'
    BY DEF WhileAsking
  <2>2. /\ answer # "ok" /\ call'.tried = call.tried + 1
    BY <1>2, <2>1
  <2>3. Mine' \subseteq unheard'
    BY <1>3, <1>4, <2>2, MineBound
  <2>4. use.how \in {"plain", "once"} => Cardinality(Mine') <= call'.tried
    BY <1>6, <1>8, <2>2 DEF CallInv, WhileAsking
  <2>5. use.how # "staged" => call'.draft = 0
    BY <1>2 DEF CallInv, WhileAsking
  <2>6. use.how = "staged" => call'.draft = d /\ d # 0 /\ Mine' \subseteq {d}
    BY <1>2, <1>3 DEF ThingIds
  <2>7. QED BY <1>2, <2>3, <2>4, <2>5, <2>6 DEF WhileAsking
<1>12. WhenDone'
  BY <1>2, <1>3, <1>4, MineBound DEF WhenDone
<1>13. \A m \in 1..(call.number - 1) : OutOf(m)' = OutOf(m)
  BY <1>1 DEF CallRecord
<1>14. unheard \subseteq unheard' /\ call'.at # "idle"
  BY <1>2, <1>4
<1>15. QED
  BY <1>2, <1>5, <1>7, <1>9, <1>10, <1>11, <1>12, <1>13, <1>14, EarlierCallsKept

\* A draft that the provider has made and not sent off.
LEMMA DraftMade ==
    ASSUME CallInv, call.at = "asking", NEW answer \in Answers, UNCHANGED <<use, outbox>>,
           use.how = "staged", call.draft = 0,
           things' = Append(things, [call |-> call.number, key |-> Key, out |-> FALSE]),
           Hear(answer, Len(things) + 1),
           call' = AfterAnswer(answer, [call EXCEPT !.draft = Len(things) + 1, !.tried = 0])
    PROVE  CallInv'
<1> DEFINE new == Len(things) + 1
           made == [call EXCEPT !.draft = new, !.tried = 0]
<1>1. call \in CallRecord /\ Len(things) \in Nat /\ call.number > 0
  BY Elements DEF CallInv, Numbered
<1>2. /\ made \in CallRecord /\ made.number = call.number /\ made.at = "asking"
      /\ made.draft = new /\ made.tried = 0 /\ made.ref = call.ref
  <2>1. new \in Nat /\ 0 \in Tries
    BY <1>1 DEF Tries
  <2> HIDE DEF new
  <2>2. QED BY <1>1, <2>1 DEF CallRecord
<1> HIDE DEF made
<1>3. /\ call' \in CallRecord /\ call'.number = call.number /\ call'.at # "idle"
      /\ call'.ref \in {0, call.ref} /\ call'.draft \in {0, new}
      /\ call'.at = "done" => call'.result = "failed"
      /\ call'.at = "asking" => call'.tried = 0 \/ (call'.tried = call.tried + 1 /\ call.tried < use.retries)
  BY <1>1, <1>2, Answered DEF made
<1>4. /\ things' \in Seq(Thing) /\ Len(things') = new
      /\ ThingIds' = ThingIds \cup {new} /\ new \notin ThingIds
      /\ \A i \in ThingIds : things'[i] = things[i]
      /\ things'[new] = [call |-> call.number, key |-> Key, out |-> FALSE]
      /\ \A n : OutOf(n)' = OutOf(n)
  BY MadeThing
<1>5. Mine' = Mine /\ Mine = {}
  BY <1>3, <1>4 DEF Mine, CallInv, WhileAsking
<1>6. unheard \subseteq unheard' /\ unheard' \subseteq unheard \cup {new}
  BY DEF Hear
<1>7. ProviderCallsTypeOK'
  <2>1. call'.ref \in 0..Len(things') /\ call'.draft \in 0..Len(things')
    <3>1. call.ref \in 0..Len(things)
      BY DEF CallInv, ProviderCallsTypeOK
    <3>2. QED BY <1>1, <1>3, <1>4, <3>1
  <2>2. unheard' \subseteq ThingIds'
    BY <1>4, <1>6 DEF CallInv, ProviderCallsTypeOK
  <2>3. things' \in Seq([call : 1..MaxCalls, key : (1..MaxCalls) \X (0..3), out : BOOLEAN])
    BY <1>4 DEF Thing
  <2>4. QED BY <1>3, <2>1, <2>2, <2>3 DEF CallInv, ProviderCallsTypeOK, CallRecord, Tries
<1>8. Numbered'
  <2>1. call.tried \in Nat /\ use.retries \in Nat
    BY Uses DEF CallInv, ProviderCallsTypeOK
  <2>2. call'.at = "asking" => call'.tried <= use.retries
    BY <1>3, <2>1
  <2>3. ASSUME NEW i \in ThingIds'
        PROVE  /\ things'[i].call <= call.number /\ things'[i].key = <<things'[i].call, 0>>
    <3>1. CASE i = new
      BY <1>1, <1>4, <3>1 DEF Key, CallRecord
    <3>2. CASE i \in ThingIds
      BY <1>4, <3>2 DEF CallInv, Numbered
    <3>3. QED BY <1>4, <3>1, <3>2
  <2>4. QED BY <1>1, <1>3, <2>2, <2>3 DEF CallInv, Numbered
<1>9. WhileAsking'
  <2>1. things'[new].call = call.number /\ new \in ThingIds'
    BY <1>4
  <2>2. Mine' = {}
    BY <1>5
  <2>3. QED BY <1>3, <2>1, <2>2 DEF WhileAsking
<1>10. WhenDone'
  BY <1>3, <1>5 DEF WhenDone
<1>11. Mine' \ unheard' = {}
  BY <1>5
<1>12. Cardinality(Mine') = 0 /\ Cardinality(Mine' \ unheard') = 0
  BY <1>5, <1>11, FS_EmptySet
<1>13. Cardinality(Mine') <= IF use.how = "plain" THEN use.retries + 1 ELSE 1
  BY <1>12
<1>14. QED
  BY <1>3, <1>4, <1>6, <1>7, <1>8, <1>9, <1>10, <1>12, <1>13, EarlierCallsKept

LEMMA SendRequestStep ==
    ASSUME CallInv, NEW answer \in Answers, NEW acts \in BOOLEAN, SendRequest(answer, acts)
    PROVE  CallInv'
<1>1. /\ call.at = "asking" /\ call.draft = 0 /\ MayAct(answer, acts) /\ UNCHANGED <<use, outbox>>
  BY DEF SendRequest
<1>2. CASE use.how = "keyed" /\ Known(Key) # {} /\ answer \notin {"refused", "limited"}
  <2> DEFINE i == CHOOSE j \in Known(Key) : TRUE
  <2>1. i \in Known(Key)
    BY <1>2
  <2>2. i \in Mine /\ i \in Nat
    BY <1>2, <2>1 DEF CallInv, Numbered, Known, Key, Mine, OutOf, ThingIds
  <2>3. call' = AfterAnswer(answer, Finish("sent", i)) /\ UNCHANGED <<things, unheard>>
    BY <1>2 DEF SendRequest
  <2>4. QED BY <1>1, <2>2, <2>3, NothingNew
<1>3. CASE ~(use.how = "keyed" /\ Known(Key) # {} /\ answer \notin {"refused", "limited"}) /\ acts
  <2> DEFINE new == Len(things) + 1
  <2>1. /\ things' = Make(use.how # "staged") /\ Hear(answer, new)
        /\ call' = AfterAnswer(answer, IF use.how = "staged"
                                       THEN [call EXCEPT !.draft = new, !.tried = 0]
                                       ELSE Finish("sent", new))
    BY <1>3 DEF SendRequest
  <2>2. CASE use.how = "staged"
    <3>1. things' = Append(things, [call |-> call.number, key |-> Key, out |-> FALSE])
      BY <2>1, <2>2 DEF Make
    <3>2. QED BY <1>1, <2>1, <2>2, <3>1, DraftMade
  <2>3. CASE use.how # "staged"
    <3>1. things' = Append(things, [call |-> call.number, key |-> Key, out |-> TRUE])
      BY <2>1, <2>3 DEF Make
    <3>2. /\ things' \in Seq(Thing) /\ ThingIds' = ThingIds \cup {new}
          /\ \A i \in ThingIds : things'[i] = things[i]
          /\ things'[new] = [call |-> call.number, key |-> Key, out |-> TRUE]
          /\ \A n : OutOf(n)' = IF n = call.number THEN OutOf(n) \cup {new} ELSE OutOf(n)
      BY <1>1, <3>1, MadeThing
    <3>3. use.how = "keyed" => Mine = {}
      <4>1. use.how = "keyed" => Known(Key) = {}
        BY <1>1, <1>3 DEF MayAct
      <4>2. use.how = "keyed" => Mine \subseteq Known(Key)
        BY DEF CallInv, Numbered, Known, Key, Mine, OutOf, ThingIds
      <4>3. QED BY <4>1, <4>2
    <3>4. call.number \in Nat
      BY DEF CallInv, CallRecord
    <3>5. ASSUME NEW i \in ThingIds'
          PROVE  /\ things'[i].call <= call.number /\ things'[i].key = <<things'[i].call, 0>>
                 /\ things'[i].out
      <4>1. CASE i = new
        BY <3>2, <3>4, <4>1 DEF Key
      <4>2. CASE i \in ThingIds
        BY <2>3, <3>2, <4>2 DEF CallInv, Numbered
      <4>3. QED BY <3>2, <4>1, <4>2
    <3>6. call' = AfterAnswer(answer, Finish("sent", new))
      BY <2>1, <2>3
    <3>7. QED BY <1>1, <2>1, <2>3, <3>2, <3>3, <3>5, <3>6, OneMoreOut
  <2>4. QED BY <2>2, <2>3
<1>4. CASE ~(use.how = "keyed" /\ Known(Key) # {} /\ answer \notin {"refused", "limited"}) /\ ~acts
  <2>1. answer # "ok" /\ call' = AfterAnswer(answer, call) /\ UNCHANGED <<things, unheard>>
    BY <1>1, <1>4 DEF SendRequest, MayAct
  <2>2. AfterAnswer(answer, call) = AfterAnswer(answer, Finish("sent", 0))
    BY <2>1 DEF AfterAnswer
  <2>3. QED BY <1>1, <2>1, <2>2, NothingNew
<1>5. QED BY <1>2, <1>3, <1>4

LEMMA SendOffStep ==
    ASSUME CallInv, NEW answer \in Answers, NEW acts \in BOOLEAN, SendOff(answer, acts)
    PROVE  CallInv'
<1>1. /\ call.at = "asking" /\ call.draft # 0 /\ UNCHANGED <<use, outbox>>
      /\ call' = AfterAnswer(answer, Finish("sent", call.draft))
  BY DEF SendOff
<1>2. /\ call.draft \in ThingIds /\ things[call.draft].call = call.number
      /\ Mine \subseteq {call.draft} /\ use.how = "staged" /\ call.draft \in Nat
  BY <1>1 DEF CallInv, WhileAsking, CallRecord
<1>3. CASE things[call.draft].out
  <2>1. call.draft \in Mine
    BY <1>2, <1>3 DEF Mine, OutOf
  <2>2. UNCHANGED <<things, unheard>>
    BY <1>3 DEF SendOff
  <2>3. QED BY <1>1, <1>2, <2>1, <2>2, NothingNew
<1>4. CASE ~things[call.draft].out /\ acts
  <2>1. things' = [things EXCEPT ![call.draft].out = TRUE] /\ Hear(answer, call.draft)
    BY <1>4 DEF SendOff
  <2>2. things \in Seq(Thing) /\ \A i \in ThingIds : things[i] \in Thing
    BY Elements DEF CallInv
  <2>3. things[call.draft] \in Thing /\ [things[call.draft] EXCEPT !.out = TRUE] \in Thing
    BY <1>2, <2>2 DEF Thing
  <2>4. things' = [things EXCEPT ![call.draft] = [things[call.draft] EXCEPT !.out = TRUE]]
    BY <1>2, <2>1, <2>2
  <2>5. things' \in Seq(Thing) /\ ThingIds' = ThingIds
    BY <1>2, <2>2, <2>3, <2>4 DEF ThingIds
  <2> DEFINE off == [things[call.draft] EXCEPT !.out = TRUE]
  <2> HIDE DEF off
  <2>6. things'[call.draft] = off /\ \A i \in ThingIds \ {call.draft} : things'[i] = things[i]
    <3>1. things' = [things EXCEPT ![call.draft] = off]
      BY <2>4 DEF off
    <3>2. QED BY <1>2, <2>2, <3>1 DEF ThingIds
  <2>6a. /\ things'[call.draft].call = call.number /\ things'[call.draft].out
         /\ things'[call.draft].key = things[call.draft].key
    BY <1>2, <2>3, <2>6 DEF Thing, off
  <2>6b. ASSUME NEW i \in ThingIds'
        PROVE  /\ things'[i].call <= call.number /\ things'[i].key = <<things'[i].call, 0>>
    BY <1>2, <2>5, <2>6, <2>6a DEF CallInv, Numbered
  <2>7. \A n : OutOf(n)' = IF n = call.number THEN OutOf(n) \cup {call.draft} ELSE OutOf(n)
    BY <1>2, <2>5, <2>6, <2>6a DEF OutOf
  <2>8. QED
    BY <1>1, <1>2, <2>1, <2>5, <2>6a, <2>6b, <2>7, OneMoreOut
<1>5. CASE ~things[call.draft].out /\ ~acts
  <2>1. answer # "ok" /\ UNCHANGED <<things, unheard>>
    BY <1>5 DEF SendOff, MayAct
  <2>2. QED BY <1>1, <1>2, <2>1, NothingNew
<1>6. QED BY <1>3, <1>4, <1>5

LEMMA AskStep == ASSUME CallInv, Ask PROVE CallInv'
<1>1. /\ call \in CallRecord /\ call.number \in Nat /\ call.number < MaxCalls
      /\ call' = [Idle EXCEPT !.at = "asking", !.number = call.number + 1]
      /\ UNCHANGED <<use, things, unheard, outbox>>
  BY DEF CallInv, CallRecord, Ask
<1>2. /\ call' \in CallRecord /\ call'.at = "asking" /\ call'.number = call.number + 1
      /\ call'.tried = 0 /\ call'.draft = 0 /\ call'.ref = 0 /\ call'.result = "none"
  <2>1. 0 \in Tries /\ call.number + 1 \in 0..MaxCalls
    BY <1>1, ProviderCallsAssumption DEF Tries
  <2>2. QED BY <1>1, <2>1 DEF Idle, CallRecord
<1>3. ThingIds' = ThingIds /\ \A n : OutOf(n)' = OutOf(n)
  BY <1>1 DEF ThingIds, OutOf
<1>4. Mine' = {}
  <2>1. \A i \in ThingIds : things[i].call <= call.number
    BY DEF CallInv, Numbered
  <2>2. OutOf(call.number + 1) = {}
    BY <1>1, <2>1 DEF OutOf
  <2>3. QED BY <1>2, <1>3, <2>2 DEF Mine
<1>5. ProviderCallsTypeOK'
  <2>1. Len(things) \in Nat
    BY Elements DEF CallInv
  <2>2. call'.number \in 0..MaxCalls
    BY <1>2 DEF CallRecord
  <2>3. QED BY <1>1, <1>2, <1>3, <2>1, <2>2 DEF CallInv, ProviderCallsTypeOK
<1>6. Numbered'
  <2>1. \A i \in ThingIds : things[i].call \in Nat
    BY Elements, ProviderCallsAssumption DEF CallInv, Thing
  <2>2. \A j \in 1..Len(outbox) : outbox[j].call \in Nat
    BY Elements, ProviderCallsAssumption DEF CallInv, Outcome
  <2>3. use.retries \in Nat
    BY Uses DEF CallInv, ProviderCallsTypeOK
  <2>4. QED BY <1>1, <1>2, <1>3, <2>1, <2>2, <2>3 DEF CallInv, Numbered
<1>7. Cardinality({}) = 0 /\ use.retries \in Nat
  BY FS_EmptySet, Uses DEF CallInv, ProviderCallsTypeOK
<1>8. WhileAsking' /\ WhenDone'
  <2>1. Cardinality(Mine') = 0
    BY <1>4, <1>7
  <2>2. QED BY <1>2, <1>4, <2>1 DEF WhileAsking, WhenDone
<1>9. SentWasDone' /\ FailedWasNot'
  BY <1>1, <1>3 DEF CallInv, DoneAsRecorded, SentWasDone, FailedWasNot
<1>10. DoneOnce'
  <2>1. SUFFICES ASSUME NEW n \in 1..call'.number
                 PROVE  /\ Cardinality(OutOf(n)' \ unheard') <= 1
                        /\ Cardinality(OutOf(n)') <= IF use'.how = "plain" THEN use'.retries + 1 ELSE 1
    BY DEF DoneOnce
  <2>2. CASE n = call'.number
    <3>1. OutOf(n)' = {} /\ OutOf(n)' \ unheard' = {}
      BY <1>4, <2>2 DEF Mine
    <3>2. Cardinality(OutOf(n)') = 0 /\ Cardinality(OutOf(n)' \ unheard') = 0
      BY <1>7, <3>1
    <3>3. QED BY <1>1, <1>7, <3>2
  <2>3. CASE n # call'.number
    <3>1. n \in 1..call.number
      BY <1>1, <1>2, <2>3
    <3>2. QED BY <1>1, <1>3, <3>1 DEF CallInv, DoneAsRecorded, DoneOnce
  <2>4. QED BY <2>2, <2>3
<1>11. QED BY <1>2, <1>5, <1>6, <1>8, <1>9, <1>10 DEF CallInv, DoneAsRecorded

\* The process is done with the call, or goes away.
LEMMA CallOver ==
    ASSUME CallInv, call' = [Idle EXCEPT !.number = call.number], call.at # "idle",
           UNCHANGED <<use, things, unheard>>,
           outbox' \in Seq(Outcome), \A j \in 1..Len(outbox') : outbox'[j].call <= call.number,
           SentWasDone', FailedWasNot'
    PROVE  CallInv'
<1>1. call' \in CallRecord /\ call'.at = "idle" /\ call'.number = call.number
  <2>1. 0 \in Tries /\ call.number \in 0..MaxCalls
    BY DEF Tries, CallInv, CallRecord
  <2>2. QED BY <2>1 DEF CallRecord, Idle
<1>2. call'.draft = 0 /\ call'.ref = 0 /\ call'.result = "none" /\ call'.tried = 0
  BY DEF Idle
<1>3. ThingIds' = ThingIds /\ \A n : OutOf(n)' = OutOf(n)
  BY DEF ThingIds, OutOf
<1>4. ProviderCallsTypeOK'
  <2>1. outbox' \in Seq([call : 1..MaxCalls, status : {"sent", "failed"}, ref : Nat])
    BY DEF Outcome
  <2>2. QED BY <1>1, <1>2, <1>3, <2>1 DEF CallInv, ProviderCallsTypeOK, CallRecord
<1>5. Numbered' /\ WhileAsking' /\ WhenDone'
  BY <1>1, <1>3 DEF CallInv, Numbered, WhileAsking, WhenDone
<1>6. DoneOnce'
  BY <1>1, <1>3 DEF CallInv, DoneAsRecorded, DoneOnce
<1>7. QED BY <1>1, <1>4, <1>5, <1>6 DEF CallInv, DoneAsRecorded

LEMMA RecordStep == ASSUME CallInv, Record PROVE CallInv'
<1> DEFINE outcome == [call |-> call.number, status |-> call.result, ref |-> call.ref]
<1>1. /\ call.at = "done" /\ outbox' = Append(outbox, outcome)
      /\ call' = [Idle EXCEPT !.number = call.number] /\ UNCHANGED <<use, things, unheard>>
  BY DEF Record
<1>2. outcome \in Outcome /\ outcome.call = call.number /\ outcome.status = call.result
      /\ outcome.ref = call.ref
  BY <1>1, ProviderCallsAssumption DEF CallInv, CallRecord, Numbered, WhenDone, Outcome
<1> HIDE DEF outcome
<1>3. outbox \in Seq(Outcome) /\ call.number \in Nat
  BY Elements DEF CallInv, CallRecord
<1>4. /\ outbox' \in Seq(Outcome) /\ Len(outbox') = Len(outbox) + 1
      /\ outbox'[Len(outbox) + 1] = outcome
      /\ \A j \in 1..Len(outbox) : outbox'[j] = outbox[j]
  BY <1>1, <1>2, <1>3
<1>5. ASSUME NEW j \in 1..Len(outbox')
      PROVE  j \in 1..Len(outbox) \/ (j = Len(outbox) + 1 /\ outbox'[j] = outcome)
  BY <1>3, <1>4
<1>6. \A j \in 1..Len(outbox') : outbox'[j].call <= call.number
  BY <1>2, <1>3, <1>4, <1>5 DEF CallInv, Numbered
<1>7. ThingIds' = ThingIds /\ \A n : OutOf(n)' = OutOf(n)
  BY <1>1 DEF ThingIds, OutOf
<1>8. SentWasDone'
  <2>1. call.result = "sent" => call.ref \in ThingIds /\ call.ref \in OutOf(call.number)
    BY <1>1 DEF CallInv, WhenDone, Mine
  <2>2. QED BY <1>2, <1>4, <1>5, <1>7, <2>1 DEF CallInv, DoneAsRecorded, SentWasDone
<1>9. FailedWasNot'
  <2>1. call.result = "failed" => OutOf(call.number) \subseteq unheard
    BY <1>1 DEF CallInv, WhenDone, Mine
  <2>2. QED BY <1>1, <1>2, <1>4, <1>5, <1>7, <2>1 DEF CallInv, DoneAsRecorded, FailedWasNot
<1>10. QED BY <1>1, <1>4, <1>6, <1>8, <1>9, CallOver

LEMMA LoseCallStep == ASSUME CallInv, LoseCall PROVE CallInv'
<1>1. /\ call' = [Idle EXCEPT !.number = call.number] /\ call.at # "idle"
      /\ UNCHANGED <<use, things, unheard, outbox>>
  BY DEF LoseCall
<1>2. SentWasDone' /\ FailedWasNot'
  BY <1>1 DEF CallInv, DoneAsRecorded, SentWasDone, FailedWasNot, ThingIds, OutOf
<1>3. outbox \in Seq(Outcome) /\ \A j \in 1..Len(outbox) : outbox[j].call <= call.number
  BY Elements DEF CallInv, Numbered
<1>4. QED BY <1>1, <1>2, <1>3, CallOver

LEMMA CallInvStep == CallInv /\ [ProviderCallsNext]_callVars => CallInv'
<1> SUFFICES ASSUME CallInv, [ProviderCallsNext]_callVars PROVE CallInv'
  OBVIOUS
<1>1. CASE UNCHANGED callVars
  <2>1. ThingIds' = ThingIds /\ Mine' = Mine /\ \A n : OutOf(n)' = OutOf(n)
    BY <1>1 DEF callVars, ThingIds, Mine, OutOf
  <2>2. ProviderCallsTypeOK' /\ (call \in CallRecord)' /\ Numbered' /\ WhileAsking' /\ WhenDone'
    BY <1>1, <2>1 DEF callVars, CallInv, ProviderCallsTypeOK, CallRecord, Numbered, WhileAsking, WhenDone
  <2>3. SentWasDone' /\ FailedWasNot' /\ DoneOnce'
    BY <1>1, <2>1 DEF callVars, CallInv, DoneAsRecorded, SentWasDone, FailedWasNot, DoneOnce
  <2>4. QED BY <2>2, <2>3 DEF CallInv, DoneAsRecorded
<1>2. QED
  BY <1>1, AskStep, RecordStep, LoseCallStep, SendRequestStep, SendOffStep DEF ProviderCallsNext

\* What is recorded of an outbound action is what became of it, whatever answers are lost
\* and however often it is retried: sent was done, failed was not unless nobody heard, and
\* it was done once but for retries over a lost answer.
THEOREM CallsKept == ProviderCallsSpec => []DoneAsRecorded
<1>1. CallInv => DoneAsRecorded
  BY DEF CallInv
<1>2. QED BY <1>1, CallInvInit, CallInvStep, PTL DEF ProviderCallsSpec

----------------------------------------------------------------------------
\* The tokens under which carriers are asked.

Grant == [ends : Nat, ended : BOOLEAN]

Times == 0..2
Lookup == [step : {"asking", "holding"} \cup LookupEnded, renew : BOOLEAN, got : Times, sent : Times]

\* A token is asked for before the first request, and again when that was refused.
RenewedOnce ==
    /\ lookup.sent <= 1 /\ (lookup.sent = 1 => lookup.renew)
    /\ lookup.step = "asking" => lookup.got <= lookup.sent
    /\ lookup.step = "holding" => lookup.got <= lookup.sent + 1 /\ lookup.got >= lookup.sent

TokensInv ==
    /\ TokensTypeOK /\ purse.token <= Len(grants)
    /\ RenewedOnce /\ StaleTokenRenewed

LEMMA TokensInvInit == TokensInit => TokensInv
<1> SUFFICES ASSUME TokensInit PROVE TokensInv
  OBVIOUS
<1>1. TokensTypeOK
  BY TokensAssumption DEF TokensInit, TokensTypeOK, NoToken, NoLookup, LookupEnded
<1>2. RenewedOnce /\ StaleTokenRenewed /\ purse.token <= Len(grants)
  BY DEF TokensInit, NoToken, NoLookup, RenewedOnce, StaleTokenRenewed
<1>3. QED BY <1>1, <1>2 DEF TokensInv

LEMMA TokensTypes ==
    ASSUME TokensInv
    PROVE  /\ lookup \in Lookup /\ lookup.got \in Nat /\ lookup.sent \in Nat
           /\ time \in Nat /\ Len(grants) \in Nat
           /\ grants \in Seq(Grant) /\ \A g \in 1..Len(grants) : grants[g] \in Grant
<1>1. lookup \in Lookup /\ grants \in Seq(Grant) /\ time \in Nat
  BY TokensAssumption DEF TokensInv, TokensTypeOK, Lookup, Times, Grant
<1>2. lookup.got \in Nat /\ lookup.sent \in Nat
  BY <1>1 DEF Lookup, Times
<1>3. QED BY <1>1, <1>2

LEMMA TokensInvStep == TokensInv /\ [TokensNext]_tokenVars => TokensInv'
<1> SUFFICES ASSUME TokensInv, [TokensNext]_tokenVars PROVE TokensInv'
  OBVIOUS
<1>0. ASSUME lookup' \in Lookup, UNCHANGED <<time, grants, purse>>, RenewedOnce', StaleTokenRenewed'
      PROVE  TokensInv'
  BY <1>0 DEF TokensInv, TokensTypeOK, Lookup, Times
<1>a. 0 \in Times /\ 1 \in Times /\ \A n \in Times : n <= 1 => n + 1 \in Times
  BY DEF Times
<1>1. CASE BeginLookup
  <2>1. lookup' \in Lookup /\ lookup'.step = "asking" /\ lookup'.got = 0 /\ lookup'.sent = 0
    BY <1>1, <1>a DEF BeginLookup, NoLookup, Lookup
  <2>2. QED BY <1>0, <1>1, <2>1 DEF BeginLookup, RenewedOnce, StaleTokenRenewed
<1>2. CASE UseToken
  <2>1. /\ lookup' \in Lookup /\ lookup.step = "asking" /\ lookup'.step = "holding"
        /\ lookup'.got = lookup.got /\ lookup'.sent = lookup.sent /\ lookup'.renew = lookup.renew
        /\ ~lookup.renew /\ UNCHANGED <<time, grants, purse>>
    BY <1>2, TokensTypes DEF UseToken, HasToken, Lookup
  <2>2. RenewedOnce'
    BY <2>1, TokensTypes DEF TokensInv, RenewedOnce
  <2>3. QED BY <1>0, <2>1, <2>2 DEF StaleTokenRenewed
<1>3. CASE NoGrant
  <2>1. /\ lookup' \in Lookup /\ lookup'.step = "no_token"
        /\ lookup'.got = lookup.got /\ lookup'.sent = lookup.sent /\ lookup'.renew = lookup.renew
        /\ UNCHANGED <<time, grants, purse>>
    BY <1>3, TokensTypes DEF NoGrant, Lookup, LookupEnded
  <2>2. QED BY <1>0, <2>1 DEF TokensInv, RenewedOnce, StaleTokenRenewed
<1>4. CASE SendLookup
  <2>1. lookup.step = "holding" /\ UNCHANGED <<time, grants, purse>>
    BY <1>4 DEF SendLookup
  <2>2. lookup.sent <= 1 /\ lookup.got <= lookup.sent + 1 /\ lookup.got >= lookup.sent
    BY <2>1 DEF TokensInv, RenewedOnce
  <2>3. CASE Works(purse.token)
    <3>1. /\ lookup' \in Lookup /\ lookup'.step = "answered"
          /\ lookup'.sent = lookup.sent /\ lookup'.renew = lookup.renew
      BY <1>4, <2>3, TokensTypes DEF SendLookup, Lookup, LookupEnded
    <3>2. QED BY <1>0, <2>1, <3>1 DEF TokensInv, RenewedOnce, StaleTokenRenewed
  <2>4. CASE ~Works(purse.token) /\ lookup.sent = 0
    <3>1. lookup.sent + 1 \in Times /\ lookup.sent + 1 = 1
      BY <2>4 DEF Times
    <3>2. /\ lookup' \in Lookup /\ lookup'.step = "asking" /\ lookup'.got = lookup.got
          /\ lookup'.sent = 1 /\ lookup'.renew
      BY <1>4, <2>4, <3>1, TokensTypes DEF SendLookup, SentAnew, Lookup
    <3>3. RenewedOnce' /\ StaleTokenRenewed'
      BY <2>2, <2>4, <3>2 DEF RenewedOnce, StaleTokenRenewed
    <3>4. QED BY <1>0, <2>1, <3>2, <3>3
  <2>5. CASE ~Works(purse.token) /\ lookup.sent # 0
    <3>1. /\ lookup' \in Lookup /\ lookup'.step = "refused" /\ lookup'.got = lookup.got
          /\ lookup'.sent = lookup.sent /\ lookup'.renew = lookup.renew
      BY <1>4, <2>5, TokensTypes DEF SendLookup, Lookup, LookupEnded
    <3>2. lookup.got > 0
      BY <2>2, <2>5, TokensTypes
    <3>3. RenewedOnce' /\ StaleTokenRenewed'
      BY <2>1, <2>5, <3>1, <3>2 DEF TokensInv, RenewedOnce, StaleTokenRenewed, Works
    <3>4. QED BY <1>0, <2>1, <3>1, <3>3
  <2>6. QED BY <2>3, <2>4, <2>5
<1>5. ASSUME NEW lifetime \in Lifetimes, GetToken(lifetime) PROVE TokensInv'
  <2> DEFINE grant == [ends |-> time + lifetime, ended |-> FALSE]
  <2>1. /\ lookup.step = "asking" /\ Len(grants) < MaxTokens /\ time' = time
        /\ grants' = Append(grants, grant)
        /\ purse' = [token |-> Len(grants) + 1, until |-> time + UsedFor(lifetime)]
        /\ lookup' = [lookup EXCEPT !.step = "holding", !.got = @ + 1]
    BY <1>5 DEF GetToken
  <2>2. grant \in Grant /\ UsedFor(lifetime) \in Nat
    BY TokensTypes, TokensAssumption DEF Grant, UsedFor
  <2> HIDE DEF grant
  <2>3. grants' \in Seq(Grant) /\ Len(grants') = Len(grants) + 1
    BY <2>1, <2>2, TokensTypes
  <2>4. purse' \in [token : 0..MaxTokens, until : Nat] /\ purse'.token <= Len(grants')
    <3>1. Len(grants) + 1 \in 0..MaxTokens /\ time + UsedFor(lifetime) \in Nat
      BY <2>1, <2>2, TokensTypes, TokensAssumption
    <3>2. QED BY <2>1, <2>3, <3>1, TokensTypes
  <2>5. lookup.sent <= 1 /\ lookup.got <= lookup.sent /\ (lookup.sent = 1 => lookup.renew)
    BY <2>1 DEF TokensInv, RenewedOnce
  <2>6. lookup.got + 1 \in Times
    BY <2>5, TokensTypes, <2>1 DEF Times, TokensInv, RenewedOnce
  <2>7. /\ lookup' \in Lookup /\ lookup'.step = "holding" /\ lookup'.got = lookup.got + 1
        /\ lookup'.sent = lookup.sent /\ lookup'.renew = lookup.renew
    BY <2>1, <2>6, TokensTypes DEF Lookup
  <2>8. RenewedOnce' /\ StaleTokenRenewed'
    <3>1. lookup.got + 1 >= lookup.sent /\ lookup.got + 1 <= lookup.sent + 1
      BY <2>1, <2>5, TokensTypes DEF TokensInv, RenewedOnce
    <3>2. QED BY <2>5, <2>7, <3>1 DEF RenewedOnce, StaleTokenRenewed
  <2>9. TokensTypeOK'
    <3>1. Len(grants') <= MaxTokens
      BY <2>1, <2>3, TokensTypes, TokensAssumption
    <3>2. QED BY <2>1, <2>3, <2>4, <2>7, <3>1
             DEF TokensInv, TokensTypeOK, Grant, Lookup, Times
  <2>10. QED BY <2>4, <2>8, <2>9 DEF TokensInv
<1>6. CASE TimePasses
  <2>1. time' \in 0..MaxTime /\ time' > time /\ UNCHANGED <<grants, purse, lookup>>
    BY <1>6, TokensAssumption DEF TimePasses, TokensInv, TokensTypeOK
  <2>2. ~Works(purse.token) => ~Works(purse.token)'
    <3>1. SUFFICES ASSUME purse.token \in DOMAIN grants, time' < grants[purse.token].ends
                   PROVE  time < grants[purse.token].ends
      BY <2>1 DEF Works
    <3>2. purse.token \in 1..Len(grants) /\ grants[purse.token] \in Grant
      BY <3>1, TokensTypes
    <3>3. grants[purse.token].ends \in Nat
      BY <3>2 DEF Grant
    <3>4. QED BY <2>1, <3>1, <3>3, TokensTypes DEF TokensInv, TokensTypeOK
  <2>3. QED BY <2>1, <2>2 DEF TokensInv, TokensTypeOK, RenewedOnce, StaleTokenRenewed
<1>7. CASE NextRun
  <2>1. /\ lookup' \in Lookup /\ lookup'.step = "answered" /\ lookup'.sent = 0
        /\ purse'.token = 0 /\ purse' \in [token : 0..MaxTokens, until : Nat]
        /\ UNCHANGED <<time, grants>>
    BY <1>7, <1>a, TokensAssumption DEF NextRun, NoLookup, NoToken, Lookup, LookupEnded
  <2>2. TokensTypeOK'
    BY <2>1 DEF TokensInv, TokensTypeOK, Lookup, Times
  <2>3. purse'.token <= Len(grants')
    BY <2>1, TokensTypes
  <2>4. QED BY <2>1, <2>2, <2>3 DEF TokensInv, RenewedOnce, StaleTokenRenewed
<1>8. ASSUME NEW token \in TokenIds, EndToken(token) PROVE TokensInv'
  <2> DEFINE grant == [grants[token] EXCEPT !.ended = TRUE]
  <2>1. /\ token \in DOMAIN grants /\ UNCHANGED <<time, purse, lookup>>
        /\ grants' = [grants EXCEPT ![token] = grant]
    BY <1>8, TokensTypes DEF EndToken
  <2>2. token \in 1..Len(grants) /\ grants[token] \in Grant
    BY <2>1, TokensTypes
  <2>3. grant \in Grant /\ grant.ended
    BY <2>2 DEF Grant
  <2> HIDE DEF grant
  <2>4. /\ grants' \in Seq(Grant) /\ Len(grants') = Len(grants) /\ DOMAIN grants' = DOMAIN grants
        /\ grants'[token] = grant /\ \A g \in 1..Len(grants) \ {token} : grants'[g] = grants[g]
    BY <2>1, <2>2, <2>3, TokensTypes
  <2>5. ~Works(purse.token) => ~Works(purse.token)'
    BY <2>1, <2>3, <2>4, TokensTypes DEF Works
  <2>6. TokensTypeOK'
    BY <2>1, <2>4 DEF TokensInv, TokensTypeOK, Grant
  <2>7. QED BY <2>1, <2>4, <2>5, <2>6 DEF TokensInv, RenewedOnce, StaleTokenRenewed
<1>9. CASE UNCHANGED tokenVars
  BY <1>9 DEF tokenVars, Works, TokensInv, TokensTypeOK, RenewedOnce, StaleTokenRenewed
<1>10. QED
  BY <1>1, <1>2, <1>3, <1>4, <1>5, <1>6, <1>7, <1>8, <1>9 DEF TokensNext

\* No lookup is recorded as refused because a token had gone stale: the connector asked for
\* another one first.
THEOREM TokensKept == TokensSpec => []StaleTokenRenewed
<1>1. TokensInv => StaleTokenRenewed
  BY DEF TokensInv
<1>2. QED BY <1>1, TokensInvInit, TokensInvStep, PTL DEF TokensSpec

----------------------------------------------------------------------------
\* The cursors.  What makes NothingPassedOver inductive is that the cursor, and the position
\* that a sync under way will leave in it, leave out nothing that is not kept.

\* What was read and stored, and what the discipline gives up.
Kept == pulled \cup excused.items

GivenUp == excused.limit \/ excused.place

\* How far the position p reaches, in items, and the items a sync that goes on from p leaves out.
Reach(p) == IF discipline = "uid" THEN p + gone ELSE p
Passed(i, p) == IF discipline \in {"calls", "events"} THEN i + Overlap < p ELSE i <= Reach(p)

ListedBegun == discipline # "calls" => listed = 1..begun

\* What the cursor leaves out is kept.
CursorCovers ==
    cursor.is = "taken" /\ ~GivenUp =>
        /\ Reach(cursor.at) <= begun
        /\ \A i \in listed : Passed(i, cursor.at) => i \in Kept

\* So is what the sync under way, once it has listed, does not find and its position leaves out.
ReadingCovers ==
    reading.step = "listed" /\ ~GivenUp =>
        /\ Cardinality(reading.found) <= Limit
        /\ reading.due \subseteq reading.found \cup Kept
        /\ Reach(Position.at) <= begun
        /\ \A i \in listed : Passed(i, Position.at) => i \in reading.found \cup Kept

ReadingShape ==
    /\ reading.due \subseteq listed /\ reading.found \subseteq listed
    /\ reading.mark <= begun /\ reading.newest <= begun
    /\ reading.step = "rest" => reading = NotReading
    /\ cursor.is = "none" => cursor.at = 0 /\ gone = 0
    /\ cursor.is = "refused" => discipline \in {"history", "delta", "uid"}
    /\ discipline = "uid" => \A i \in reading.found : i > gone

PullsInv ==
    /\ PullsTypeOK /\ ListedBegun /\ ReadingShape /\ CursorCovers /\ ReadingCovers
    /\ NothingPassedOver


\* A bounded set of numbers that has a member has a greatest one.
LEMMA GreatestIs ==
    ASSUME NEW S \in SUBSET Nat, NEW n \in Nat, \A i \in S : i <= n, NEW least \in Nat
    PROVE  LET g == Greatest(S, least) IN
           /\ g \in Nat /\ (S = {} => g = least)
           /\ S # {} => g \in S /\ \A j \in S : j <= g
<1>1. CASE S = {}
  BY <1>1 DEF Greatest
<1>2. CASE S # {}
  <2> DEFINE Smaller == {p \in Nat \X Nat : p[1] < p[2]}
             Bounds == {b \in Nat : \A i \in S : i <= b}
  <2>1. IsWellFoundedOn(Smaller, Nat)
    BY NatLessThanWellFounded DEF OpToRel
  <2>2. Bounds \subseteq Nat /\ n \in Bounds
    OBVIOUS
  <2> HIDE DEF Smaller
  <2>3. PICK b \in Bounds : \A c \in Bounds : <<c, b>> \notin Smaller
    BY <2>1, <2>2, WFMin
  <2>4. b \in S
    <3>1. SUFFICES ASSUME b \notin S PROVE FALSE
      OBVIOUS
    <3>2. PICK i \in S : i <= b
      BY <1>2, <2>3
    <3>3. b - 1 \in Nat /\ \A j \in S : j <= b - 1
      BY <2>3, <3>1, <3>2
    <3>4. <<b - 1, b>> \in Smaller /\ b - 1 \in Bounds
      BY <2>3, <3>3 DEF Smaller
    <3>5. QED BY <2>3, <3>4
  <2>5. \E i \in S : \A j \in S : j <= i
    BY <2>3, <2>4
  <2>6. QED BY <1>2, <2>5 DEF Greatest
<1>3. QED BY <1>1, <1>2

\* What is not more than the limit is read at once.
LEMMA AllRead ==
    ASSUME NEW S \in SUBSET Nat, IsFiniteSet(S), Cardinality(S) <= Limit
    PROVE  Oldest(S, Limit) = S /\ Newest(S, Limit) = S
<1>1. ASSUME NEW i \in S, NEW T \in SUBSET S, i \notin T PROVE Cardinality(T) < Limit
  <2>1. T \subseteq S \ {i}
    BY <1>1
  <2>2. IsFiniteSet(S \ {i}) /\ Cardinality(S \ {i}) = Cardinality(S) - 1 /\ Cardinality(S) \in Nat
    BY FS_RemoveElement, FS_CardinalityType
  <2>3. Cardinality(T) <= Cardinality(S \ {i}) /\ Cardinality(T) \in Nat
    BY <2>1, <2>2, FS_Subset, FS_CardinalityType
  <2>4. QED BY <2>2, <2>3, PullsAssumption
<1>2. \A i \in S : Cardinality({j \in S : j < i}) < Limit /\ Cardinality({j \in S : j > i}) < Limit
  BY <1>1
<1>3. QED BY <1>2 DEF Oldest, Newest

\* The numbers of items, and none.
Upto == 0..MaxItems

LEMMA UptoNat == Upto \subseteq Nat /\ \A i \in Upto : i <= MaxItems
BY PullsAssumption DEF Upto

LEMMA PositionStays ==
    ASSUME UNCHANGED <<discipline, gone, cursor, reading>> PROVE Position' = Position
BY DEF Position, HistoryPosition, DeltaPosition, UidPosition, CallsPosition, EventsPosition,
       At, Batch

LEMMA PullsTypes ==
    ASSUME PullsInv
    PROVE  /\ begun \in Nat /\ begun <= MaxItems /\ MaxItems \in Nat
           /\ listed \subseteq Nat /\ \A i \in listed : i > 0 /\ i <= begun
           /\ reading.found \subseteq listed /\ IsFiniteSet(reading.found)
           /\ gone \in Nat /\ gone <= begun /\ cursor.at \in Nat /\ cursor.at <= MaxItems
           /\ reading.mark \in Nat /\ reading.newest \in Nat
<1>1. /\ begun \in Nat /\ begun <= MaxItems /\ MaxItems \in Nat
      /\ listed \subseteq Nat /\ \A i \in listed : i > 0 /\ i <= begun
      /\ reading.found \subseteq listed
  BY PullsAssumption DEF PullsInv, PullsTypeOK, ReadingShape
<1>2. gone \in Nat /\ gone <= begun /\ cursor.at \in Nat /\ cursor.at <= MaxItems
      /\ reading.mark \in Nat /\ reading.newest \in Nat
  BY <1>1 DEF PullsInv, PullsTypeOK
<1>3. IsFiniteSet(1..begun)
  BY <1>1, FS_Interval
<1>4. IsFiniteSet(reading.found)
  BY <1>1, <1>3, FS_Subset DEF PullsInv, PullsTypeOK
<1>5. QED BY <1>1, <1>2, <1>4

LEMMA PullsInvInit == PullsInit => PullsInv
<1> SUFFICES ASSUME PullsInit PROVE PullsInv
  OBVIOUS
<1>1. PullsTypeOK
  BY PullsAssumption DEF PullsInit, PullsTypeOK, NotReading, Items
<1>2. ListedBegun /\ ReadingShape /\ CursorCovers /\ ReadingCovers /\ NothingPassedOver
  BY DEF PullsInit, NotReading, ListedBegun, ReadingShape, CursorCovers, ReadingCovers, NothingPassedOver
<1>3. QED BY <1>1, <1>2 DEF PullsInv

\* A sync's position is a number of an item.
LEMMA PositionType == ASSUME PullsInv PROVE Position \in [is : {"none", "taken", "refused"}, at : Upto]
<1>1. /\ 0 \in Upto /\ begun \in Upto /\ reading.mark \in Upto /\ reading.newest \in Upto
      /\ cursor \in [is : {"none", "taken", "refused"}, at : Upto] /\ cursor.at \in Upto
      /\ \A n \in Nat : n <= MaxItems => n \in Upto
  BY PullsAssumption DEF PullsInv, PullsTypeOK, Upto
<1>2. \A i \in Upto : At(i) \in [is : {"none", "taken", "refused"}, at : Upto]
  BY DEF At
<1>3. Batch \subseteq reading.found
  BY DEF Batch, Oldest, Newest
<1>4. Greatest(Batch, cursor.at) \in Upto
  <2>1. Batch \subseteq Nat /\ \A i \in Batch : i <= begun
    BY <1>3, PullsTypes
  <2>2. LET g == Greatest(Batch, cursor.at) IN
        g \in Nat /\ (Batch = {} => g = cursor.at) /\ (Batch # {} => g \in Batch)
    BY <2>1, PullsTypes, GreatestIs
  <2>3. QED BY <1>1, <2>1, <2>2, PullsTypes
<1>5. ASSUME discipline = "uid" PROVE Greatest({i - gone : i \in Batch}, cursor.at) \in Upto
  <2> DEFINE Uids == {i - gone : i \in Batch}
  <2>1. Uids \subseteq Nat /\ \A u \in Uids : u <= begun
    BY <1>3, <1>5, PullsTypes DEF PullsInv, ReadingShape
  <2> HIDE DEF Uids
  <2>2. LET g == Greatest(Uids, cursor.at) IN
        g \in Nat /\ (Uids = {} => g = cursor.at) /\ (Uids # {} => g \in Uids)
    BY <2>1, PullsTypes, GreatestIs
  <2>3. Greatest(Uids, cursor.at) \in Upto
    BY <1>1, <2>1, <2>2, PullsTypes
  <2>4. QED BY <2>3 DEF Uids
<1>6. discipline \in Disciplines
  BY DEF PullsInv, PullsTypeOK
<1>7. CASE discipline = "history"
  BY <1>1, <1>2, <1>7 DEF Position, HistoryPosition
<1>8. CASE discipline = "delta"
  BY <1>1, <1>2, <1>8 DEF Position, DeltaPosition
<1>9. CASE discipline = "uid"
  BY <1>2, <1>5, <1>9 DEF Position, UidPosition
<1>10. CASE discipline = "calls"
  BY <1>2, <1>4, <1>10 DEF Position, CallsPosition
<1>11. CASE discipline = "events"
  BY <1>1, <1>2, <1>4, <1>11 DEF Position, EventsPosition, CallsPosition
<1>12. QED BY <1>6, <1>7, <1>8, <1>9, <1>10, <1>11 DEF Disciplines

\* An item that comes after everything a position reaches is not left out by it.
LEMMA NotPassed ==
    ASSUME NEW i \in Nat, NEW p \in Nat, Reach(p) <= begun, discipline \in Disciplines, gone \in Nat,
           begun \in Nat,
           i > begun \/ (discipline = "calls" /\ i + Overlap >= begun)
    PROVE  ~Passed(i, p)
<1>1. CASE discipline \in {"calls", "events"}
  BY <1>1, PullsAssumption DEF Reach, Passed
<1>2. CASE discipline \notin {"calls", "events"}
  BY <1>2 DEF Reach, Passed
<1>3. QED BY <1>1, <1>2

LEMMA ItemBeginsStep == ASSUME PullsInv, ItemBegins PROVE PullsInv'
<1>1. /\ begun' = begun + 1 /\ begun < MaxItems
      /\ UNCHANGED <<discipline, gone, cursor, reading, pulled, due, excused>>
  BY DEF ItemBegins
<1>2. /\ listed' \subseteq listed \cup {begun + 1} /\ listed \subseteq listed'
      /\ discipline # "calls" => listed' = listed \cup {begun + 1}
  BY DEF ItemBegins, EndsLater
<1>3. begun' \in 0..MaxItems /\ listed' \subseteq 1..begun'
  BY <1>1, <1>2, PullsTypes
<1>4. PullsTypeOK'
  <2>1. gone' \in 0..begun' /\ pulled' \subseteq listed' /\ due' \subseteq listed'
    BY <1>1, <1>2, PullsTypes DEF PullsInv, PullsTypeOK
  <2>2. /\ discipline' \in Disciplines
        /\ cursor' \in [is : {"none", "taken", "refused"}, at : 0..MaxItems]
        /\ reading' \in [step : {"rest", "begun", "listed"}, mark : 0..MaxItems, due : SUBSET Items,
                         found : SUBSET Items, newest : 0..MaxItems]
        /\ excused' \in [items : SUBSET Items, limit : BOOLEAN, place : BOOLEAN]
    BY <1>1 DEF PullsInv, PullsTypeOK
  <2>3. QED BY <1>3, <2>1, <2>2, Zenon DEF PullsTypeOK
<1>5. ListedBegun'
  <2>1. 1..(begun + 1) = 1..begun \cup {begun + 1}
    BY PullsTypes
  <2>2. QED BY <1>1, <1>2, <2>1 DEF PullsInv, ListedBegun
<1>6. ReadingShape'
  BY <1>1, <1>2, PullsTypes DEF PullsInv, ReadingShape
<1>7. Position' = Position /\ Kept' = Kept /\ (GivenUp' <=> GivenUp)
  BY <1>1, PositionStays DEF Kept, GivenUp
<1>8. ASSUME NEW p \in Nat, Reach(p) <= begun
      PROVE  /\ Reach(p)' <= begun'
             /\ \A i \in listed' : Passed(i, p)' => i \in listed /\ Passed(i, p)
  <2>1. Reach(p)' <= begun'
    BY <1>1, <1>8, PullsTypes DEF Reach
  <2>2. ~Passed(begun + 1, p)
    BY <1>8, PullsTypes, NotPassed DEF PullsInv, PullsTypeOK
  <2>3. \A i \in listed' : Passed(i, p)' <=> Passed(i, p)
    BY <1>1 DEF Passed, Reach
  <2>4. QED BY <1>2, <2>1, <2>2, <2>3
<1>9. CursorCovers'
  BY <1>1, <1>7, <1>8, PullsTypes DEF PullsInv, CursorCovers
<1>10. ReadingCovers'
  <2>1. SUFFICES ASSUME reading.step = "listed", ~GivenUp PROVE ReadingCovers'
    BY <1>1, <1>7 DEF ReadingCovers
  <2>2. Position.at \in Nat /\ Reach(Position.at) <= begun
    BY <2>1, PositionType, UptoNat DEF PullsInv, ReadingCovers
  <2>3. QED BY <1>1, <1>7, <1>8, <2>1, <2>2, PullsTypes DEF PullsInv, ReadingCovers
<1>11. NothingPassedOver'
  BY <1>1 DEF PullsInv, NothingPassedOver
<1>12. QED BY <1>4, <1>5, <1>6, <1>9, <1>10, <1>11 DEF PullsInv

LEMMA CallEndsStep == ASSUME PullsInv, NEW i \in Items, CallEnds(i) PROVE PullsInv'
<1>1. /\ discipline = "calls" /\ i \in 1..begun /\ listed' = listed \cup {i}
      /\ UNCHANGED <<discipline, begun, gone, cursor, reading, pulled, due>>
  BY DEF CallEnds, EndsLater
<1>2. /\ excused' \in [items : SUBSET Items, limit : BOOLEAN, place : BOOLEAN]
      /\ excused.items \subseteq excused'.items
      /\ excused'.limit = excused.limit /\ excused'.place = excused.place
      /\ i + Overlap < begun => i \in excused'.items
  BY DEF CallEnds, PullsInv, PullsTypeOK
<1>3. PullsTypeOK'
  <2>1. listed' \subseteq 1..begun' /\ pulled' \subseteq listed' /\ due' \subseteq listed'
    BY <1>1 DEF PullsInv, PullsTypeOK
  <2>2. /\ discipline' \in Disciplines /\ begun' \in 0..MaxItems /\ gone' \in 0..begun'
        /\ cursor' \in [is : {"none", "taken", "refused"}, at : 0..MaxItems]
        /\ reading' \in [step : {"rest", "begun", "listed"}, mark : 0..MaxItems, due : SUBSET Items,
                         found : SUBSET Items, newest : 0..MaxItems]
    BY <1>1 DEF PullsInv, PullsTypeOK
  <2>3. QED BY <1>2, <2>1, <2>2, Zenon DEF PullsTypeOK
<1>4. ListedBegun' /\ ReadingShape'
  BY <1>1 DEF PullsInv, ListedBegun, ReadingShape
<1>5. Position' = Position /\ Kept \subseteq Kept' /\ (GivenUp' <=> GivenUp)
  BY <1>1, <1>2, PositionStays DEF Kept, GivenUp
<1>6. ASSUME NEW p \in Nat, Reach(p) <= begun
      PROVE  /\ Reach(p)' = Reach(p)
             /\ \A j \in listed' : Passed(j, p)' => (j \in listed /\ Passed(j, p)) \/ j \in Kept'
  <2>1. Reach(p)' = Reach(p) /\ \A j \in listed' : Passed(j, p)' <=> Passed(j, p)
    BY <1>1 DEF Reach, Passed
  <2>2. Passed(i, p) => i \in Kept'
    <3>1. i + Overlap >= begun => ~Passed(i, p)
      BY <1>1, <1>6, PullsTypes, NotPassed DEF PullsInv, PullsTypeOK, Items
    <3>2. i + Overlap < begun \/ i + Overlap >= begun
      BY <1>1, PullsTypes, PullsAssumption
    <3>3. QED BY <1>2, <3>1, <3>2 DEF Kept
  <2>3. QED BY <1>1, <2>1, <2>2
<1>7. CursorCovers'
  BY <1>1, <1>5, <1>6, PullsTypes DEF PullsInv, CursorCovers
<1>8. ReadingCovers'
  <2>1. SUFFICES ASSUME reading.step = "listed", ~GivenUp PROVE ReadingCovers'
    BY <1>1, <1>5 DEF ReadingCovers
  <2>2. Position.at \in Nat /\ Reach(Position.at) <= begun
    BY <2>1, PositionType, UptoNat DEF PullsInv, ReadingCovers
  <2>3. QED BY <1>1, <1>5, <1>6, <2>1, <2>2, PullsTypes DEF PullsInv, ReadingCovers
<1>9. NothingPassedOver'
  BY <1>1, <1>2 DEF PullsInv, NothingPassedOver
<1>10. QED BY <1>3, <1>4, <1>7, <1>8, <1>9 DEF PullsInv

LEMMA ProviderForgetsStep ==
    ASSUME PullsInv, NEW before \in 0..begun, ProviderForgets(before) PROVE PullsInv'
<1>1. /\ discipline \in {"history", "delta", "uid"} /\ reading = NotReading /\ cursor.is = "taken"
      /\ cursor' = [cursor EXCEPT !.is = "refused"] /\ gone' \in {before, gone}
      /\ UNCHANGED <<discipline, begun, listed, reading, pulled, due, excused>>
  BY DEF ProviderForgets
<1>2. PullsTypeOK'
  <2>1. listed' \subseteq 1..begun' /\ pulled' \subseteq listed' /\ due' \subseteq listed'
        /\ gone' \in 0..begun' /\ discipline' \in Disciplines /\ begun' \in 0..MaxItems
    BY <1>1 DEF PullsInv, PullsTypeOK
  <2>2. cursor' \in [is : {"none", "taken", "refused"}, at : Upto]
    BY <1>1 DEF PullsInv, PullsTypeOK, Upto
  <2>3. /\ reading' \in [step : {"rest", "begun", "listed"}, mark : 0..MaxItems, due : SUBSET Items,
                         found : SUBSET Items, newest : 0..MaxItems]
        /\ excused' \in [items : SUBSET Items, limit : BOOLEAN, place : BOOLEAN]
    BY <1>1 DEF PullsInv, PullsTypeOK
  <2>4. QED BY <2>1, <2>2, <2>3, Zenon DEF PullsTypeOK, Upto
<1>3. cursor'.is = "refused" /\ reading'.step = "rest"
  BY <1>1 DEF PullsInv, PullsTypeOK, NotReading
<1>4. ListedBegun' /\ ReadingShape'
  BY <1>1, <1>3 DEF PullsInv, ListedBegun, ReadingShape, NotReading
<1>5. CursorCovers' /\ ReadingCovers'
  BY <1>3 DEF CursorCovers, ReadingCovers
<1>6. NothingPassedOver'
  BY <1>1 DEF PullsInv, NothingPassedOver
<1>7. QED BY <1>2, <1>4, <1>5, <1>6 DEF PullsInv

LEMMA BeginPullStep == ASSUME PullsInv, BeginPull PROVE PullsInv'
<1>1. /\ reading' = [step |-> "begun", mark |-> begun, due |-> listed, found |-> {}, newest |-> 0]
      /\ UNCHANGED <<discipline, begun, listed, gone, cursor, pulled, due, excused>>
  BY DEF BeginPull, NotReading
<1>2. PullsTypeOK'
  <2>1. listed' \subseteq 1..begun' /\ pulled' \subseteq listed' /\ due' \subseteq listed'
        /\ gone' \in 0..begun' /\ discipline' \in Disciplines /\ begun' \in 0..MaxItems
        /\ cursor' \in [is : {"none", "taken", "refused"}, at : 0..MaxItems]
        /\ excused' \in [items : SUBSET Items, limit : BOOLEAN, place : BOOLEAN]
    BY <1>1 DEF PullsInv, PullsTypeOK
  <2>2. begun \in Upto /\ 0 \in Upto /\ listed \in SUBSET Items
    BY PullsTypes, PullsAssumption DEF Upto, Items, PullsInv, PullsTypeOK
  <2>3. reading' \in [step : {"rest", "begun", "listed"}, mark : Upto, due : SUBSET Items,
                      found : SUBSET Items, newest : Upto]
    BY <1>1, <2>2
  <2>4. QED BY <2>1, <2>3, Zenon DEF PullsTypeOK, Upto
<1>3. ListedBegun' /\ ReadingShape'
  BY <1>1, PullsTypes DEF PullsInv, ListedBegun, ReadingShape
<1>4. CursorCovers'
  BY <1>1 DEF PullsInv, CursorCovers, GivenUp, Reach, Passed, Kept
<1>5. ReadingCovers' /\ NothingPassedOver'
  BY <1>1 DEF PullsInv, ReadingCovers, NothingPassedOver
<1>6. QED BY <1>2, <1>3, <1>4, <1>5 DEF PullsInv

LEMMA FailPullStep == ASSUME PullsInv, FailPull PROVE PullsInv'
<1>1. /\ reading' = NotReading
      /\ UNCHANGED <<discipline, begun, listed, gone, cursor, pulled, due, excused>>
  BY DEF FailPull
<1>2. PullsTypeOK'
  <2>1. listed' \subseteq 1..begun' /\ pulled' \subseteq listed' /\ due' \subseteq listed'
        /\ gone' \in 0..begun' /\ discipline' \in Disciplines /\ begun' \in 0..MaxItems
        /\ cursor' \in [is : {"none", "taken", "refused"}, at : 0..MaxItems]
        /\ excused' \in [items : SUBSET Items, limit : BOOLEAN, place : BOOLEAN]
    BY <1>1 DEF PullsInv, PullsTypeOK
  <2>2. 0 \in Upto
    BY PullsAssumption DEF Upto
  <2>3. reading' \in [step : {"rest", "begun", "listed"}, mark : Upto, due : SUBSET Items,
                      found : SUBSET Items, newest : Upto]
    BY <1>1, <2>2 DEF NotReading
  <2>4. QED BY <2>1, <2>3, Zenon DEF PullsTypeOK, Upto
<1>3. ListedBegun' /\ ReadingShape'
  BY <1>1, PullsTypes DEF PullsInv, ListedBegun, ReadingShape, NotReading
<1>4. CursorCovers'
  BY <1>1 DEF PullsInv, CursorCovers, GivenUp, Reach, Passed, Kept
<1>5. ReadingCovers' /\ NothingPassedOver'
  BY <1>1 DEF PullsInv, ReadingCovers, NothingPassedOver, NotReading
<1>6. QED BY <1>2, <1>3, <1>4, <1>5 DEF PullsInv

\* A sync that has not listed yet finds all that its cursor leaves to it, or it is given up.
LEMMA ListItemsStep == ASSUME PullsInv, ListItems PROVE PullsInv'
<1>1. /\ reading.step = "begun"
      /\ reading' = [reading EXCEPT !.step = "listed", !.found = Found, !.newest = begun]
      /\ UNCHANGED <<discipline, begun, listed, gone, cursor, pulled, due>>
  BY DEF ListItems
<1>2. Found \subseteq listed
  BY DEF Found, HistoryFound, DeltaFound, UidFound, CallsFound, EventsFound, After, Recent,
         SinceOverlap, PullsInv, PullsTypeOK, Disciplines
<1>3. begun \in Upto /\ listed \subseteq Items
  BY PullsTypes DEF Upto, Items
<1>4. /\ reading'.step = "listed" /\ reading'.found = Found /\ reading'.newest = begun
      /\ reading'.mark = reading.mark /\ reading'.due = reading.due
      /\ reading' \in [step : {"rest", "begun", "listed"}, mark : Upto, due : SUBSET Items,
                       found : SUBSET Items, newest : Upto]
  <2>1. reading \in [step : {"rest", "begun", "listed"}, mark : Upto, due : SUBSET Items,
                     found : SUBSET Items, newest : Upto]
    BY DEF PullsInv, PullsTypeOK, Upto
  <2>2. QED BY <1>1, <1>2, <1>3, <2>1
<1>5. /\ excused' \in [items : SUBSET Items, limit : BOOLEAN, place : BOOLEAN]
      /\ excused.items \subseteq excused'.items
      /\ (GivenUp => GivenUp')
      /\ (~GoesOn => listed \ Found \subseteq excused'.items)
      /\ (~excused'.limit => ~(Cardinality(Found) > Limit))
      /\ (~excused'.place => ~(discipline = "uid" /\ cursor.at # 0 /\ ~GoesOn /\ Found = {}))
  <2>1. excused \in [items : SUBSET Items, limit : BOOLEAN, place : BOOLEAN]
    BY DEF PullsInv, PullsTypeOK
  <2> DEFINE tooMany == Cardinality(Found) > Limit
             lost == discipline = "uid" /\ cursor.at # 0 /\ ~GoesOn /\ Found = {}
             items == IF GoesOn THEN excused.items ELSE excused.items \cup (listed \ Found)
  <2>2. excused' = [excused EXCEPT !.items = items, !.limit = excused.limit \/ tooMany,
                                   !.place = excused.place \/ lost]
    BY DEF ListItems
  <2>3. items \in SUBSET Items /\ excused.items \subseteq items /\ (~GoesOn => listed \ Found \subseteq items)
    BY <1>3, <2>1
  <2> HIDE DEF tooMany, lost, items
  <2>4. /\ excused' \in [items : SUBSET Items, limit : BOOLEAN, place : BOOLEAN]
        /\ excused'.items = items /\ (excused'.limit <=> excused.limit \/ tooMany)
        /\ (excused'.place <=> excused.place \/ lost)
    BY <2>1, <2>2, <2>3
  <2>5. QED BY <2>3, <2>4 DEF GivenUp, tooMany, lost
<1>6. PullsTypeOK'
  <2>1. listed' \subseteq 1..begun' /\ pulled' \subseteq listed' /\ due' \subseteq listed'
        /\ gone' \in 0..begun' /\ discipline' \in Disciplines /\ begun' \in 0..MaxItems
        /\ cursor' \in [is : {"none", "taken", "refused"}, at : 0..MaxItems]
    BY <1>1 DEF PullsInv, PullsTypeOK
  <2>2. QED BY <1>4, <1>5, <2>1, Zenon DEF PullsTypeOK, Upto
<1>7. ListedBegun'
  BY <1>1 DEF PullsInv, ListedBegun
<1>8. discipline = "uid" => \A i \in Found : i > gone
  BY PullsTypes DEF Found, UidFound, After, GoesOn, PullsInv, ReadingShape, Disciplines
<1>9. ReadingShape'
  BY <1>1, <1>2, <1>4, <1>8, PullsTypes DEF PullsInv, ReadingShape
<1>10. CursorCovers'
  BY <1>1, <1>5 DEF PullsInv, CursorCovers, Kept, Reach, Passed
<1>11. ReadingCovers'
  <2> SUFFICES ASSUME ~GivenUp' PROVE
        /\ Cardinality(Found) <= Limit
        /\ reading'.due \subseteq Found \cup Kept'
        /\ Reach(Position.at)' <= begun'
        /\ \A i \in listed' : Passed(i, Position.at)' => i \in Found \cup Kept'
    BY <1>4 DEF ReadingCovers
  <2>1. ~GivenUp /\ ~excused'.limit /\ ~excused'.place /\ Kept \subseteq Kept'
    BY <1>1, <1>5 DEF GivenUp, Kept
  <2>2. listed \subseteq Found \cup Kept'
    <3>1. CASE ~GoesOn
      BY <1>5, <3>1 DEF Kept
    <3>2. CASE GoesOn
      <4>1. ASSUME NEW i \in listed, i \notin Found PROVE Passed(i, cursor.at)
        <5>1. discipline \in Disciplines /\ cursor.is = "taken"
          BY <3>2 DEF PullsInv, PullsTypeOK, GoesOn
        <5>2. CASE discipline \in {"calls", "events"}
          BY <4>1, <5>1, <5>2, PullsTypes, PullsAssumption
             DEF Found, CallsFound, EventsFound, SinceOverlap, Passed
        <5>3. CASE discipline = "history"
          BY <4>1, <5>1, <5>3, PullsTypes DEF Found, HistoryFound, After, Passed, Reach
        <5>4. CASE discipline = "delta"
          BY <4>1, <5>1, <5>4, PullsTypes DEF Found, DeltaFound, After, Passed, Reach
        <5>5. CASE discipline = "uid"
          BY <3>2, <4>1, <5>5, PullsTypes DEF Found, UidFound, After, Passed, Reach
        <5>6. QED BY <5>1, <5>2, <5>3, <5>4, <5>5 DEF Disciplines
      <4>2. QED BY <2>1, <3>2, <4>1 DEF GoesOn, PullsInv, CursorCovers
    <3>3. QED BY <3>1, <3>2
  <2>3. Cardinality(Found) <= Limit /\ Cardinality(Found) \in Nat /\ IsFiniteSet(Found)
    <3>1. IsFiniteSet(Found)
      <4>1. IsFiniteSet(1..begun)
        BY FS_Interval, PullsTypes
      <4>2. Found \subseteq 1..begun
        BY <1>2 DEF PullsInv, PullsTypeOK
      <4>3. QED BY <4>1, <4>2, FS_Subset
    <3>2. QED BY <1>5, <2>1, <3>1, FS_CardinalityType, PullsAssumption
  <2>4. Batch' = Found
    <3>1. Oldest(Found, Limit) = Found /\ Newest(Found, Limit) = Found
      BY <1>2, <2>3, AllRead, PullsTypes
    <3>2. Batch' \in {Oldest(Found, Limit), Newest(Found, Limit)}
      BY <1>1, <1>4 DEF Batch
    <3>3. QED BY <3>1, <3>2
  <2>5. Reach(Position.at)' <= begun
    <3>1. cursor.is = "none" => cursor.at = 0 /\ gone = 0
      BY DEF PullsInv, ReadingShape
    <3>2. cursor.is = "taken" => Reach(cursor.at) <= begun
      BY <2>1 DEF PullsInv, CursorCovers
    <3>3. cursor.is \in {"none", "taken", "refused"} /\ discipline \in Disciplines
      BY DEF PullsInv, PullsTypeOK
    <3>4. CASE discipline = "history"
      BY <1>1, <1>4, <3>4, PullsTypes DEF Position, HistoryPosition, At, Reach, PullsInv, ReadingShape
    <3>5. CASE discipline = "delta"
      BY <1>1, <1>4, <2>3, <3>5, PullsTypes, PullsAssumption DEF Position, DeltaPosition, At, Reach
    <3>6. CASE discipline = "uid"
      <4> DEFINE Uids == {i - gone : i \in Found}
      <4>1. Uids \subseteq Nat /\ \A u \in Uids : u <= begun /\ u + gone <= begun
        BY <1>2, <1>8, <3>6, PullsTypes
      <4>2. Uids = {} => Found = {}
        OBVIOUS
      <4>3. Position'.at = Greatest(Uids, cursor.at)
        BY <1>1, <2>4, <3>6 DEF Position, UidPosition, At
      <4> HIDE DEF Uids
      <4>4. LET g == Greatest(Uids, cursor.at) IN
            g \in Nat /\ (Uids = {} => g = cursor.at) /\ (Uids # {} => g \in Uids)
        BY <4>1, PullsTypes, GreatestIs
      <4>5. Uids = {} => cursor.at + gone <= begun
        BY <1>5, <2>1, <3>1, <3>2, <3>3, <3>6, <4>2, PullsTypes DEF Reach, GoesOn
      <4>6. QED BY <1>1, <3>6, <4>1, <4>3, <4>4, <4>5 DEF Reach
    <3>7. CASE discipline \in {"calls", "events"}
      <4>1. LET g == Greatest(Found, cursor.at) IN
            g \in Nat /\ (Found = {} => g = cursor.at) /\ (Found # {} => g \in Found)
        BY <1>2, PullsTypes, GreatestIs
      <4>2. cursor.at <= begun
        BY <3>1, <3>2, <3>3, <3>7, PullsTypes DEF Reach, PullsInv, ReadingShape
      <4>3. Greatest(Found, cursor.at) <= begun
        BY <1>2, <4>1, <4>2, PullsTypes
      <4>4. Position'.at \in {Greatest(Found, cursor.at), begun}
        BY <1>1, <1>4, <2>4, <3>7 DEF Position, CallsPosition, EventsPosition, At
      <4>5. QED BY <1>1, <3>7, <4>3, <4>4, PullsTypes DEF Reach
    <3>8. QED BY <3>3, <3>4, <3>5, <3>6, <3>7 DEF Disciplines
  <2>6. QED BY <1>1, <1>4, <2>2, <2>3, <2>5 DEF PullsInv, ReadingShape
<1>12. NothingPassedOver'
  BY <1>1, <1>5 DEF PullsInv, NothingPassedOver, GivenUp
<1>13. QED BY <1>6, <1>7, <1>9, <1>10, <1>11, <1>12 DEF PullsInv

\* What was found is read, all of it unless a limit was reached: the cursor moves over it.
LEMMA EndPullStep == ASSUME PullsInv, EndPull PROVE PullsInv'
<1>1. /\ reading.step = "listed" /\ pulled' = pulled \cup Batch /\ cursor' = Position
      /\ due' = reading.due /\ reading' = NotReading
      /\ UNCHANGED <<discipline, begun, listed, gone, excused>>
  BY DEF EndPull
<1>2. Batch \subseteq reading.found /\ reading.found \subseteq listed /\ reading.due \subseteq listed
  BY DEF Batch, Oldest, Newest, PullsInv, ReadingShape
<1>3. PullsTypeOK'
  <2>1. /\ discipline' \in Disciplines /\ begun' \in 0..MaxItems /\ listed' \subseteq 1..begun'
        /\ gone' \in 0..begun' /\ pulled' \subseteq listed' /\ due' \subseteq listed'
        /\ excused' \in [items : SUBSET Items, limit : BOOLEAN, place : BOOLEAN]
    BY <1>1, <1>2 DEF PullsInv, PullsTypeOK
  <2>2. cursor' \in [is : {"none", "taken", "refused"}, at : Upto]
    BY <1>1, PositionType
  <2>3. 0 \in Upto
    BY PullsAssumption DEF Upto
  <2>4. reading' \in [step : {"rest", "begun", "listed"}, mark : Upto, due : SUBSET Items,
                      found : SUBSET Items, newest : Upto]
    BY <1>1, <2>3 DEF NotReading
  <2>5. QED BY <2>1, <2>2, <2>4, Zenon DEF PullsTypeOK, Upto
<1>4. ListedBegun'
  BY <1>1 DEF PullsInv, ListedBegun
<1>5. Position.is = "taken" \/ (discipline = "delta" /\ Position = cursor)
  BY DEF Position, HistoryPosition, DeltaPosition, UidPosition, CallsPosition, EventsPosition, At,
         PullsInv, PullsTypeOK, Disciplines
<1>6. ReadingShape'
  BY <1>1, <1>5, PullsTypes DEF PullsInv, ReadingShape, NotReading
<1>7. ASSUME ~GivenUp
      PROVE  /\ pulled' = pulled \cup reading.found /\ reading.due \subseteq reading.found \cup Kept
             /\ Reach(Position.at) <= begun
             /\ \A i \in listed : Passed(i, Position.at) => i \in reading.found \cup Kept
  <2>1. /\ Cardinality(reading.found) <= Limit /\ reading.due \subseteq reading.found \cup Kept
        /\ Reach(Position.at) <= begun
        /\ \A i \in listed : Passed(i, Position.at) => i \in reading.found \cup Kept
    BY <1>1, <1>7 DEF PullsInv, ReadingCovers
  <2>2. Oldest(reading.found, Limit) = reading.found /\ Newest(reading.found, Limit) = reading.found
    BY <2>1, AllRead, PullsTypes
  <2>3. QED BY <1>1, <2>1, <2>2 DEF Batch
<1>8. CursorCovers'
  BY <1>1, <1>7 DEF CursorCovers, Kept, GivenUp, Reach, Passed
<1>9. ReadingCovers'
  BY <1>1 DEF ReadingCovers, NotReading
<1>10. NothingPassedOver'
  BY <1>1, <1>7 DEF NothingPassedOver, Kept, GivenUp
<1>11. QED BY <1>3, <1>4, <1>6, <1>8, <1>9, <1>10 DEF PullsInv

\* Whatever was listed when a sync began is stored when it has ended, or given up by what the
\* connector says of its limits (the cursors of the connectors).
THEOREM PullsKept == PullsSpec => []NothingPassedOver
<1>1. PullsInit => PullsInv
  BY PullsInvInit
<1>2. PullsInv /\ [PullsNext]_pullVars => PullsInv'
  <2> SUFFICES ASSUME PullsInv, [PullsNext]_pullVars PROVE PullsInv'
    OBVIOUS
  <2>1. CASE ItemBegins
    BY <2>1, ItemBeginsStep
  <2>2. ASSUME NEW i \in Items, CallEnds(i) PROVE PullsInv'
    BY <2>2, CallEndsStep
  <2>3. ASSUME NEW before \in 0..begun, ProviderForgets(before) PROVE PullsInv'
    BY <2>3, ProviderForgetsStep
  <2>4. CASE BeginPull \/ ListItems \/ EndPull \/ FailPull
    BY <2>4, BeginPullStep, ListItemsStep, EndPullStep, FailPullStep
  <2>5. CASE UNCHANGED pullVars
    BY <2>5, PositionStays DEF pullVars, PullsInv, PullsTypeOK, ListedBegun, ReadingShape, CursorCovers,
       ReadingCovers, NothingPassedOver, Kept, GivenUp, Reach, Passed
  <2>6. QED BY <2>1, <2>2, <2>3, <2>4, <2>5 DEF PullsNext
<1>3. PullsInv => NothingPassedOver
  BY DEF PullsInv
<1>4. QED BY <1>1, <1>2, <1>3, PTL DEF PullsSpec

----------------------------------------------------------------------------
\* Bookings.  The events tell which booking is in force after each of them, and handled in
\* order they leave just that one open: the one in force before is what the next replaces,
\* or cancels, so that the task that handles it finds it.

Turns(e) == e.kind \in {"created", "canceled"}

\* The booking in force after the first k of the events s (0: none).
BookedBy(s, k, x) ==
    \/ x = 0 /\ \A j \in 1..k : ~Turns(s[j])
    \/ \E i \in 1..k :
          /\ Turns(s[i]) /\ x = IF s[i].kind = "created" THEN s[i].id ELSE 0
          /\ \A j \in 1..k : j > i => ~Turns(s[j])

BookedAfter(k, x) == BookedBy(events, k, x)

\* What the scheduling tool tells.
BookedTypes ==
    /\ booked \in [now : 0..MaxBookings, last : 0..MaxBookings, leads : 0..MaxLeads]
    /\ events \in Seq(BookingEvents)

ToldRight ==
    /\ booked.now <= booked.last /\ BookedAfter(Len(events), booked.now)
    /\ \A k \in DOMAIN events :
          /\ events[k].kind = "created" =>
                /\ events[k].id <= booked.last
                /\ BookedAfter(k - 1, events[k].replaces)
                /\ \A j \in 1..(k - 1) : events[j].kind = "created" => events[j].id # events[k].id
          /\ events[k].kind = "canceled" => BookedAfter(k - 1, events[k].id)

\* What the CRM has of the first h events.
MadeBy(h, id) == \E j \in 1..h : events[j].kind = "created" /\ events[j].id = id

OpenIs(x) ==
    /\ \A n \in DOMAIN appointment : appointment[n].open => x # 0 /\ n = ref[x]
    /\ x # 0 => ref[x] # 0 /\ appointment[ref[x]].open /\ appointment[ref[x]].time = x

CrmTypes ==
    /\ appointment \in Seq([open : BOOLEAN, time : Ids])
    /\ ref \in [Ids -> 0..Len(appointment)]
    /\ contacts \in {0, 1}
    /\ worker \in [BookingTasks -> [event : Nat, moved : Nat, open : BOOLEAN, matched : BOOLEAN]]

CrmHas(h) ==
    /\ \E x \in 0..MaxBookings : BookedAfter(h, x) /\ OpenIs(x)
    /\ \A id \in Ids : ref[id] # 0 => MadeBy(h, id)
    /\ \A n \in DOMAIN appointment : MadeBy(h, appointment[n].time)

\* The task w has the event t, and what it read is still so.
HasEvent(w, t) ==
    LET e == events[t] IN
    /\ t # 0 /\ worker[w].event = t /\ e.kind # "rescheduled"
    /\ worker[w].matched = (contacts = 1)
    /\ e.kind = "created" =>
          /\ worker[w].moved = IF e.replaces # 0 THEN ref[e.replaces] ELSE 0
          /\ worker[w].moved # 0 => worker[w].open
    /\ \A v \in BookingTasks \ {w} : worker[v] = Waiting

HandledTo(t) ==
    /\ taken = 1..t
    /\ \/ (\A w \in BookingTasks : worker[w] = Waiting) /\ CrmHas(t)
       \/ (\E w \in BookingTasks : HasEvent(w, t)) /\ CrmHas(t - 1)

BookInv ==
    serial => BookedTypes /\ ToldRight /\ CrmTypes /\ \E t \in 0..Len(events) : HandledTo(t)

LEMMA EventRow ==
    ASSUME events \in Seq(BookingEvents), NEW k \in DOMAIN events
    PROVE  /\ events[k].kind \in {"created", "canceled", "rescheduled", "lead"}
           /\ events[k].kind # "lead" => events[k].id \in Ids /\ events[k].replaces \in 0..MaxBookings
           /\ Turns(events[k]) => events[k].id \in Ids
<1>1. events[k] \in BookingEvents
  OBVIOUS
<1>2. QED BY <1>1 DEF BookingEvents, Turns

LEMMA BookedByIsOne ==
    ASSUME NEW s, NEW k \in Nat, NEW x, NEW y, BookedBy(s, k, x), BookedBy(s, k, y)
    PROVE  x = y
<1>1. CASE \A j \in 1..k : ~Turns(s[j])
  BY <1>1 DEF BookedBy
<1>2. CASE ~ \A j \in 1..k : ~Turns(s[j])
  <2>1. PICK i \in 1..k : /\ Turns(s[i]) /\ x = IF s[i].kind = "created" THEN s[i].id ELSE 0
                          /\ \A j \in 1..k : j > i => ~Turns(s[j])
    BY <1>2 DEF BookedBy
  <2>2. PICK n \in 1..k : /\ Turns(s[n]) /\ y = IF s[n].kind = "created" THEN s[n].id ELSE 0
                          /\ \A j \in 1..k : j > n => ~Turns(s[j])
    BY <1>2 DEF BookedBy
  <2>3. i = n
    BY <2>1, <2>2
  <2>4. QED BY <2>1, <2>2, <2>3
<1>3. QED BY <1>1, <1>2

LEMMA BookedByNext ==
    ASSUME NEW s, NEW k \in Nat \ {0}, NEW x, BookedBy(s, k - 1, x)
    PROVE  /\ ~Turns(s[k]) => BookedBy(s, k, x)
           /\ s[k].kind = "created" => BookedBy(s, k, s[k].id)
           /\ s[k].kind = "canceled" => BookedBy(s, k, 0)
<1>1. k \in 1..k /\ \A j \in 1..k : j = k \/ j \in 1..(k - 1)
  OBVIOUS
<1>2. \A j \in 1..(k - 1) : j \in 1..k /\ ~(j > k)
  OBVIOUS
<1>3. ASSUME ~Turns(s[k]) PROVE BookedBy(s, k, x)
  <2>1. CASE x = 0 /\ \A j \in 1..(k - 1) : ~Turns(s[j])
    BY <1>1, <1>3, <2>1 DEF BookedBy
  <2>2. CASE ~(x = 0 /\ \A j \in 1..(k - 1) : ~Turns(s[j]))
    <3>1. PICK i \in 1..(k - 1) :
             /\ Turns(s[i]) /\ x = IF s[i].kind = "created" THEN s[i].id ELSE 0
             /\ \A j \in 1..(k - 1) : j > i => ~Turns(s[j])
      BY <2>2 DEF BookedBy
    <3>2. QED BY <1>1, <1>2, <1>3, <3>1 DEF BookedBy
  <2>3. QED BY <2>1, <2>2
<1>4. Turns(s[k]) => BookedBy(s, k, IF s[k].kind = "created" THEN s[k].id ELSE 0)
  <2>1. \A j \in 1..k : ~(j > k)
    OBVIOUS
  <2>2. QED BY <1>1, <2>1 DEF BookedBy
<1>5. QED BY <1>3, <1>4 DEF Turns

LEMMA BookedByStays ==
    ASSUME NEW s, NEW u, NEW k \in Nat, NEW x, \A j \in 1..k : u[j] = s[j]
    PROVE  BookedBy(u, k, x) <=> BookedBy(s, k, x)
  BY DEF BookedBy

\* Events are added and nothing is handled.
LEMMA MoreEvents ==
    ASSUME BookInv, serial', NEW n \in Nat, Len(events') = Len(events) + n,
           \A j \in DOMAIN events : events'[j] = events[j],
           BookedTypes', booked.last <= booked'.last, UNCHANGED <<taken, worker, appointment, ref, contacts, serial>>,
           booked'.now <= booked'.last, BookedAfter(Len(events), booked.now)',
           \A k \in DOMAIN events' \ DOMAIN events :
              /\ events'[k].kind = "created" =>
                    /\ events'[k].id <= booked'.last
                    /\ BookedAfter(k - 1, events[k].replaces)'
                    /\ \A j \in 1..(k - 1) : events'[j].kind = "created" => events'[j].id # events'[k].id
              /\ events'[k].kind = "canceled" => BookedAfter(k - 1, events[k].id)'
    PROVE  BookInv'
<1>1. /\ BookedTypes /\ ToldRight /\ CrmTypes /\ \E t \in 0..Len(events) : HandledTo(t)
  BY DEF BookInv
<1>2. /\ DOMAIN events = 1..Len(events) /\ Len(events) \in Nat /\ DOMAIN events' = 1..Len(events')
  BY <1>1 DEF BookedTypes
<1>3. CrmTypes'
  BY <1>1 DEF CrmTypes
<1>4. ToldRight'
  <2>1. ASSUME NEW k \in DOMAIN events
        PROVE  /\ events'[k].kind = "created" =>
                     /\ events'[k].id <= booked'.last
                     /\ BookedAfter(k - 1, events[k].replaces)'
                     /\ \A j \in 1..(k - 1) : events'[j].kind = "created" => events'[j].id # events'[k].id
               /\ events'[k].kind = "canceled" => BookedAfter(k - 1, events[k].id)'
    <3>1. PICK r, id : r = events[k].replaces /\ id = events[k].id
      OBVIOUS
    <3>2. events'[k] = events[k] /\ k - 1 \in Nat /\ \A j \in 1..(k - 1) : j \in DOMAIN events /\ events'[j] = events[j]
      BY <1>2
    <3>3. (BookedAfter(k - 1, r)' <=> BookedAfter(k - 1, r)) /\ (BookedAfter(k - 1, id)' <=> BookedAfter(k - 1, id))
      BY <3>2, BookedByStays DEF BookedAfter
    <3>4. events[k].kind = "created" => id \in Nat /\ id <= booked.last /\ booked.last \in Nat /\ booked'.last \in Nat
      BY <1>1, <3>1, EventRow DEF ToldRight, BookedTypes, Ids, Turns
    <3>5. events'[k].kind = "created" => events'[k].id <= booked'.last
      BY <3>1, <3>2, <3>4
    <3>6. QED BY <1>1, <3>1, <3>2, <3>3, <3>5 DEF ToldRight
  <2>2. QED BY <2>1 DEF ToldRight
<1>5. PICK t \in 0..Len(events) : HandledTo(t)
  BY <1>1
<1>6. \A j \in 1..t : j \in DOMAIN events /\ events'[j] = events[j]
  BY <1>2
<1>7. ASSUME NEW h \in Nat, h <= t, CrmHas(h) PROVE CrmHas(h)'
  <2>1. \A j \in 1..h : j \in 1..t /\ events'[j] = events[j]
    BY <1>6, <1>7
  <2>2. PICK x \in 0..MaxBookings : BookedAfter(h, x) /\ OpenIs(x)
    BY <1>7 DEF CrmHas
  <2>3. BookedAfter(h, x)'
    BY <2>1, <2>2, BookedByStays DEF BookedAfter
  <2>4. OpenIs(x)'
    BY <2>2 DEF OpenIs
  <2>5. \A id : MadeBy(h, id) => MadeBy(h, id)'
    BY <2>1 DEF MadeBy
  <2>6. \A n_ \in DOMAIN appointment : MadeBy(h, appointment[n_].time)'
    <3>1. TAKE n_ \in DOMAIN appointment
    <3>2. PICK i : i = appointment[n_].time
      OBVIOUS
    <3>3. MadeBy(h, i)'
      BY <1>7, <2>5, <3>2 DEF CrmHas
    <3>4. QED BY <3>2, <3>3 DEF MadeBy
  <2>7. QED BY <1>7, <2>3, <2>4, <2>5, <2>6 DEF CrmHas
<1>8. HandledTo(t)'
  <2>1. CASE (\A w \in BookingTasks : worker[w] = Waiting) /\ CrmHas(t)
    <3>1. CrmHas(t)'
      BY <1>7, <2>1
    <3>2. QED BY <1>5, <2>1, <3>1 DEF HandledTo
  <2>2. CASE (\E w \in BookingTasks : HasEvent(w, t)) /\ CrmHas(t - 1)
    <3>1. PICK w \in BookingTasks : HasEvent(w, t)
      BY <2>2
    <3>2. t # 0 /\ t - 1 \in Nat /\ t - 1 <= t /\ t \in 1..t
      BY <3>1 DEF HasEvent
    <3>3. CrmHas(t - 1)'
      BY <1>7, <2>2, <3>2
    <3>4. HasEvent(w, t)'
      BY <1>6, <3>1, <3>2 DEF HasEvent
    <3>5. QED BY <1>5, <3>3, <3>4 DEF HandledTo
  <2>3. QED BY <1>5, <2>1, <2>2 DEF HandledTo
<1>9. t \in 0..Len(events')
  BY <1>2
<1>10. QED BY <1>3, <1>4, <1>8, <1>9 DEF BookInv

\* One event is added.
LEMMA OneTold ==
    ASSUME events \in Seq(BookingEvents), NEW e \in BookingEvents, events' = events \o <<e>>
    PROVE  /\ events' \in Seq(BookingEvents) /\ Len(events') = Len(events) + 1 /\ Len(events) \in Nat
           /\ \A j \in DOMAIN events : events'[j] = events[j]
           /\ events'[Len(events) + 1] = e
           /\ \A k \in DOMAIN events' \ DOMAIN events : k = Len(events) + 1
           /\ \A j \in 1..Len(events) : events'[j] = events[j]
<1>1. events' = Append(events, e)
  BY AppendIsConcat
<1>2. QED BY <1>1

LEMMA BookStep == ASSUME BookInv, serial', Book PROVE BookInv'
<1> DEFINE id == booked.last + 1
           e == Event("created", id, 0)
           L == Len(events)
<1>1. /\ BookedTypes /\ ToldRight /\ booked.now = 0 /\ booked.last < MaxBookings
      /\ booked' = [booked EXCEPT !.now = id, !.last = id] /\ events' = events \o <<e>>
      /\ UNCHANGED <<taken, worker, appointment, ref, contacts, serial>>
  BY DEF Book, Tells, BookInv
<1>2. booked.last \in Nat /\ id \in Ids /\ MaxBookings \in Nat
  BY <1>1, BookingsAssumption DEF BookedTypes, Ids
<1>3. e \in BookingEvents /\ e.kind = "created" /\ e.id = id /\ e.replaces = 0
  BY <1>2 DEF BookingEvents, Event
<1>4. booked' \in [now : 0..MaxBookings, last : 0..MaxBookings, leads : 0..MaxLeads] /\ booked'.now = id /\ booked'.last = id
  <2>1. booked \in [now : 0..MaxBookings, last : 0..MaxBookings, leads : 0..MaxLeads] /\ id \in 0..MaxBookings
    BY <1>1, <1>2 DEF BookedTypes, Ids
  <2> HIDE DEF id
  <2>2. QED BY <1>1, <2>1
<1>5. PICK i : i = id
  OBVIOUS
<1> HIDE DEF e, id
<1>6. /\ events' \in Seq(BookingEvents) /\ Len(events') = L + 1 /\ L \in Nat
      /\ \A j \in DOMAIN events : events'[j] = events[j]
      /\ events'[L + 1] = e /\ \A k \in DOMAIN events' \ DOMAIN events : k = L + 1
      /\ \A j \in 1..L : events'[j] = events[j]
  BY <1>1, <1>3, OneTold DEF BookedTypes
<1>7. BookedBy(events', L, 0)
  BY <1>1, <1>6, BookedByStays DEF ToldRight, BookedAfter
<1>8. BookedBy(events', L + 1, i)
  BY <1>3, <1>5, <1>6, <1>7, BookedByNext
<1>9. \A j \in 1..L : events'[j].kind = "created" => events'[j].id # i
  BY <1>1, <1>2, <1>5, <1>6, EventRow DEF BookedTypes, ToldRight, Turns, Ids, id
<1>10. BookedTypes' /\ booked.last <= booked'.last /\ booked'.now <= booked'.last
  BY <1>2, <1>4, <1>6 DEF BookedTypes, id
<1>11. BookedAfter(Len(events), booked.now)'
  BY <1>4, <1>5, <1>6, <1>8 DEF BookedAfter
<1>12. ASSUME NEW k \in DOMAIN events' \ DOMAIN events
       PROVE  /\ events'[k].kind = "created" =>
                    /\ events'[k].id <= booked'.last
                    /\ BookedAfter(k - 1, events[k].replaces)'
                    /\ \A j \in 1..(k - 1) : events'[j].kind = "created" => events'[j].id # events'[k].id
              /\ events'[k].kind = "canceled" => BookedAfter(k - 1, events[k].id)'
  <2>1. k = L + 1 /\ k - 1 = L /\ events'[k] = e
    BY <1>6
  <2>2. events'[k].id <= booked'.last
    BY <1>2, <1>3, <1>4, <2>1 DEF Ids
  <2>3. BookedAfter(k - 1, events[k].replaces)'
    BY <1>3, <1>7, <2>1 DEF BookedAfter
  <2>4. \A j \in 1..(k - 1) : events'[j].kind = "created" => events'[j].id # events'[k].id
    BY <1>3, <1>5, <1>9, <2>1
  <2>5. events'[k].kind # "canceled"
    BY <1>3, <2>1
  <2>6. QED BY <2>2, <2>3, <2>4, <2>5
<1>13. QED BY <1>1, <1>6, <1>10, <1>11, <1>12, MoreEvents

LEMMA CancelBookingStep == ASSUME BookInv, serial', CancelBooking PROVE BookInv'
<1> DEFINE e == Event("canceled", booked.now, 0)
           L == Len(events)
<1>1. /\ BookedTypes /\ ToldRight /\ booked.now # 0
      /\ booked' = [booked EXCEPT !.now = 0] /\ events' = events \o <<e>>
      /\ UNCHANGED <<taken, worker, appointment, ref, contacts, serial>>
  BY DEF CancelBooking, Tells, BookInv
<1>2. booked.last \in Nat /\ booked.now \in Ids /\ MaxBookings \in Nat
  BY <1>1, BookingsAssumption DEF BookedTypes, Ids
<1>3. e \in BookingEvents /\ e.kind = "canceled" /\ e.id = booked.now
  BY <1>2 DEF BookingEvents, Event
<1>4. /\ booked' \in [now : 0..MaxBookings, last : 0..MaxBookings, leads : 0..MaxLeads]
      /\ booked'.now = 0 /\ booked'.last = booked.last
  <2>1. /\ booked \in [now : 0..MaxBookings, last : 0..MaxBookings, leads : 0..MaxLeads]
        /\ 0 \in 0..MaxBookings
    BY <1>1, <1>2 DEF BookedTypes
  <2>2. QED BY <1>1, <2>1
<1>5. PICK i : i = booked.now
  OBVIOUS
<1> HIDE DEF e
<1>6. /\ events' \in Seq(BookingEvents) /\ Len(events') = L + 1 /\ L \in Nat
      /\ \A j \in DOMAIN events : events'[j] = events[j]
      /\ events'[L + 1] = e /\ \A k \in DOMAIN events' \ DOMAIN events : k = L + 1
      /\ \A j \in 1..L : events'[j] = events[j]
  BY <1>1, <1>3, OneTold DEF BookedTypes
<1>7. BookedBy(events', L, i)
  BY <1>1, <1>5, <1>6, BookedByStays DEF ToldRight, BookedAfter
<1>8. BookedBy(events', L + 1, 0)
  <2>1. L + 1 \in Nat \ {0} /\ (L + 1) - 1 = L
    BY <1>6
  <2>2. QED BY <1>3, <1>6, <1>7, <2>1, BookedByNext
<1>10. BookedTypes' /\ booked.last <= booked'.last /\ booked'.now <= booked'.last
  BY <1>2, <1>4, <1>6 DEF BookedTypes
<1>11. BookedAfter(Len(events), booked.now)'
  BY <1>4, <1>6, <1>8 DEF BookedAfter
<1>12. ASSUME NEW k \in DOMAIN events' \ DOMAIN events
       PROVE  /\ events'[k].kind = "created" =>
                    /\ events'[k].id <= booked'.last
                    /\ BookedAfter(k - 1, events[k].replaces)'
                    /\ \A j \in 1..(k - 1) : events'[j].kind = "created" => events'[j].id # events'[k].id
              /\ events'[k].kind = "canceled" => BookedAfter(k - 1, events[k].id)'
  <2>1. k = L + 1 /\ k - 1 = L /\ events'[k] = e
    BY <1>6
  <2>2. BookedAfter(k - 1, events[k].id)'
    BY <1>3, <1>5, <1>7, <2>1 DEF BookedAfter
  <2>3. events'[k].kind # "created"
    BY <1>3, <2>1
  <2>4. QED BY <2>2, <2>3
<1>13. QED BY <1>1, <1>6, <1>10, <1>11, <1>12, MoreEvents

LEMMA SubmitStep == ASSUME BookInv, serial', NEW email \in Spellings, Submit(email) PROVE BookInv'
<1> DEFINE e == [kind |-> "lead", id |-> 0, replaces |-> 0, email |-> email]
           L == Len(events)
<1>1. /\ BookedTypes /\ ToldRight /\ booked.leads < MaxLeads
      /\ booked' = [booked EXCEPT !.leads = @ + 1] /\ events' = events \o <<e>>
      /\ UNCHANGED <<taken, worker, appointment, ref, contacts, serial>>
  BY DEF Submit, Tells, BookInv
<1>2. booked.last \in Nat /\ booked.now \in Nat /\ booked.leads \in Nat /\ MaxLeads \in Nat
  BY <1>1, BookingsAssumption DEF BookedTypes
<1>3. e \in BookingEvents /\ e.kind = "lead" /\ ~Turns(e)
  BY DEF BookingEvents, Turns
<1>4. /\ booked' \in [now : 0..MaxBookings, last : 0..MaxBookings, leads : 0..MaxLeads]
      /\ booked'.now = booked.now /\ booked'.last = booked.last
  BY <1>1, <1>2 DEF BookedTypes
<1>5. PICK i : i = booked.now
  OBVIOUS
<1> HIDE DEF e
<1>6. /\ events' \in Seq(BookingEvents) /\ Len(events') = L + 1 /\ L \in Nat
      /\ \A j \in DOMAIN events : events'[j] = events[j]
      /\ events'[L + 1] = e /\ \A k \in DOMAIN events' \ DOMAIN events : k = L + 1
      /\ \A j \in 1..L : events'[j] = events[j]
  BY <1>1, <1>3, OneTold DEF BookedTypes
<1>7. BookedBy(events', L, i)
  BY <1>1, <1>5, <1>6, BookedByStays DEF ToldRight, BookedAfter
<1>8. BookedBy(events', L + 1, i)
  BY <1>3, <1>6, <1>7, BookedByNext
<1>10. BookedTypes' /\ booked.last <= booked'.last /\ booked'.now <= booked'.last
  BY <1>1, <1>2, <1>4, <1>6 DEF BookedTypes, ToldRight
<1>11. BookedAfter(Len(events), booked.now)'
  BY <1>4, <1>5, <1>6, <1>8 DEF BookedAfter
<1>12. \A k \in DOMAIN events' \ DOMAIN events : events'[k].kind = "lead"
  BY <1>3, <1>6
<1>13. QED BY <1>1, <1>6, <1>10, <1>11, <1>12, MoreEvents

LEMMA RescheduleStep == ASSUME BookInv, serial', Reschedule PROVE BookInv'
<1> DEFINE id == booked.last + 1
           e == Event("rescheduled", booked.now, 0)
           f == Event("created", id, booked.now)
           L == Len(events)
<1>1. /\ BookedTypes /\ ToldRight /\ booked.now # 0 /\ booked.last < MaxBookings
      /\ booked' = [booked EXCEPT !.now = id, !.last = id] /\ events' = events \o <<e, f>>
      /\ UNCHANGED <<taken, worker, appointment, ref, contacts, serial>>
  BY DEF Reschedule, Tells, BookInv
<1>2. booked.last \in Nat /\ id \in Ids /\ booked.now \in Ids /\ MaxBookings \in Nat
  BY <1>1, BookingsAssumption DEF BookedTypes, Ids
<1>3. /\ e \in BookingEvents /\ e.kind = "rescheduled" /\ ~Turns(e)
      /\ f \in BookingEvents /\ f.kind = "created" /\ f.id = id /\ f.replaces = booked.now
  BY <1>2 DEF BookingEvents, Event, Turns, Ids
<1>4. booked' \in [now : 0..MaxBookings, last : 0..MaxBookings, leads : 0..MaxLeads] /\ booked'.now = id /\ booked'.last = id
  <2>1. booked \in [now : 0..MaxBookings, last : 0..MaxBookings, leads : 0..MaxLeads] /\ id \in 0..MaxBookings
    BY <1>1, <1>2 DEF BookedTypes, Ids
  <2> HIDE DEF id
  <2>2. QED BY <1>1, <2>1
<1>5. PICK i, n : i = id /\ n = booked.now
  OBVIOUS
<1> HIDE DEF e, f, id
<1>6. /\ events' \in Seq(BookingEvents) /\ Len(events') = L + 2 /\ L \in Nat
      /\ \A j \in DOMAIN events : events'[j] = events[j]
      /\ events'[L + 1] = e /\ events'[L + 2] = f
      /\ \A k \in DOMAIN events' \ DOMAIN events : k = L + 1 \/ k = L + 2
      /\ \A j \in 1..L : events'[j] = events[j]
  <2>1. events \in Seq(BookingEvents) /\ <<e, f>> \in Seq(BookingEvents) /\ Len(<<e, f>>) = 2 /\ L \in Nat
    BY <1>1, <1>3 DEF BookedTypes
  <2>2. /\ events' \in Seq(BookingEvents) /\ Len(events') = L + 2
        /\ \A k \in 1..(L + 2) : events'[k] = IF k <= L THEN events[k] ELSE <<e, f>>[k - L]
    BY <1>1, <2>1, ConcatProperties
  <2>3. L + 1 \in 1..(L + 2) /\ L + 2 \in 1..(L + 2) /\ (L + 1) - L = 1 /\ (L + 2) - L = 2
    BY <2>1
  <2>4. events'[L + 1] = e /\ events'[L + 2] = f
    BY <2>1, <2>2, <2>3
  <2>5. DOMAIN events = 1..L /\ DOMAIN events' = 1..(L + 2)
    BY <2>1, <2>2
  <2>6. QED BY <2>1, <2>2, <2>4, <2>5
<1>7. BookedBy(events', L, n)
  BY <1>1, <1>5, <1>6, BookedByStays DEF ToldRight, BookedAfter
<1>8. BookedBy(events', L + 1, n)
  <2>1. L + 1 \in Nat \ {0} /\ (L + 1) - 1 = L
    BY <1>6
  <2>2. QED BY <1>3, <1>6, <1>7, <2>1, BookedByNext
<1>9. BookedBy(events', L + 2, i)
  <2>1. L + 2 \in Nat \ {0} /\ (L + 2) - 1 = L + 1
    BY <1>6
  <2>2. QED BY <1>3, <1>5, <1>6, <1>8, <2>1, BookedByNext
<1>10. \A j \in 1..(L + 1) : events'[j].kind = "created" => events'[j].id # i
  <2>1. \A j \in 1..L : events'[j].kind = "created" => events'[j].id # i
    BY <1>1, <1>2, <1>5, <1>6, EventRow DEF BookedTypes, ToldRight, Turns, Ids, id
  <2>2. \A j \in 1..(L + 1) : j \in 1..L \/ j = L + 1
    BY <1>6
  <2>3. QED BY <1>3, <1>6, <2>1, <2>2
<1>11. BookedTypes' /\ booked.last <= booked'.last /\ booked'.now <= booked'.last
  BY <1>2, <1>4, <1>6 DEF BookedTypes, id
<1>12. BookedAfter(Len(events), booked.now)'
  BY <1>4, <1>5, <1>6, <1>9 DEF BookedAfter
<1>13. ASSUME NEW k \in DOMAIN events' \ DOMAIN events
       PROVE  /\ events'[k].kind = "created" =>
                    /\ events'[k].id <= booked'.last
                    /\ BookedAfter(k - 1, events[k].replaces)'
                    /\ \A j \in 1..(k - 1) : events'[j].kind = "created" => events'[j].id # events'[k].id
              /\ events'[k].kind = "canceled" => BookedAfter(k - 1, events[k].id)'
  <2>1. CASE k = L + 1
    BY <1>3, <1>6, <2>1
  <2>2. CASE k = L + 2
    <3>1. k - 1 = L + 1 /\ events'[k] = f
      BY <1>6, <2>2
    <3>2. events'[k].id <= booked'.last
      BY <1>2, <1>3, <1>4, <3>1 DEF Ids
    <3>3. BookedAfter(k - 1, events[k].replaces)'
      BY <1>3, <1>5, <1>8, <3>1 DEF BookedAfter
    <3>4. \A j \in 1..(k - 1) : events'[j].kind = "created" => events'[j].id # events'[k].id
      BY <1>3, <1>5, <1>10, <3>1
    <3>5. events'[k].kind # "canceled"
      BY <1>3, <3>1
    <3>6. QED BY <3>2, <3>3, <3>4, <3>5
  <2>3. QED BY <1>6, <2>1, <2>2
<1>14. QED BY <1>1, <1>6, <1>11, <1>12, <1>13, MoreEvents

----------------------------------------------------------------------------
LEMMA AppointmentRow ==
    ASSUME CrmTypes, NEW n \in DOMAIN appointment
    PROVE  /\ appointment[n] \in [open : BOOLEAN, time : Ids]
           /\ appointment[n].open \in BOOLEAN /\ appointment[n].time \in Ids
<1> DEFINE Rows == [open : BOOLEAN, time : Ids]
<1>1. appointment \in Seq(Rows)
  BY DEF CrmTypes
<1> HIDE DEF Rows
<1>2. appointment[n] \in Rows
  BY <1>1
<1>3. QED BY <1>2 DEF Rows

\* The next event, and what is known of it.
LEMMA BookingNext ==
    ASSUME BookedTypes, ToldRight, NEW k \in DOMAIN events, NEW x \in 0..MaxBookings,
           BookedAfter(k - 1, x)
    PROVE  /\ events[k].kind \in {"created", "canceled", "rescheduled", "lead"}
           /\ events[k].kind = "created" =>
                 events[k].id \in Ids /\ events[k].replaces = x /\ BookedAfter(k, events[k].id)
           /\ events[k].kind = "created" => ~MadeBy(k - 1, events[k].id)
           /\ events[k].kind = "canceled" => events[k].id = x /\ x \in Ids /\ BookedAfter(k, 0)
           /\ events[k].kind \in {"rescheduled", "lead"} => BookedAfter(k, x)
           /\ k \in Nat \ {0} /\ k - 1 \in Nat
<1>1. k \in Nat \ {0} /\ k - 1 \in Nat
  BY DEF BookedTypes
<1>2. /\ events[k].kind \in {"created", "canceled", "rescheduled", "lead"}
      /\ Turns(events[k]) => events[k].id \in Ids
  BY EventRow DEF BookedTypes
<1>3. /\ events[k].kind = "created" => BookedBy(events, k - 1, events[k].replaces)
      /\ events[k].kind = "created" => ~MadeBy(k - 1, events[k].id)
      /\ events[k].kind = "canceled" => BookedBy(events, k - 1, events[k].id)
  BY DEF ToldRight, MadeBy, BookedAfter
<1>4. BookedBy(events, k - 1, x)
  BY DEF BookedAfter
<1>5. /\ events[k].kind = "created" => events[k].replaces = x
      /\ events[k].kind = "canceled" => events[k].id = x
  BY <1>1, <1>3, <1>4, BookedByIsOne
<1>6. /\ ~Turns(events[k]) => BookedBy(events, k, x)
      /\ events[k].kind = "created" => BookedBy(events, k, events[k].id)
      /\ events[k].kind = "canceled" => BookedBy(events, k, 0)
  BY <1>1, <1>4, BookedByNext
<1>7. QED BY <1>1, <1>2, <1>3, <1>5, <1>6 DEF Turns, BookedAfter

LEMMA MadeStill == ASSUME NEW k \in Nat \ {0}, NEW id, MadeBy(k - 1, id) PROVE MadeBy(k, id)
<1>1. \A j \in 1..(k - 1) : j \in 1..k
  OBVIOUS
<1>2. QED BY <1>1 DEF MadeBy

\* After an event that turns nothing the CRM is as it should.
LEMMA HasStill ==
    ASSUME BookedTypes, ToldRight, NEW k \in DOMAIN events, CrmHas(k - 1),
           events[k].kind \in {"rescheduled", "lead"}
    PROVE  CrmHas(k)
<1>1. PICK x \in 0..MaxBookings : BookedAfter(k - 1, x) /\ OpenIs(x)
  BY DEF CrmHas
<1>2. BookedAfter(k, x) /\ k \in Nat \ {0}
  BY <1>1, BookingNext
<1>3. \A id : MadeBy(k - 1, id) => MadeBy(k, id)
  BY <1>2, MadeStill
<1>4. QED BY <1>1, <1>2, <1>3 DEF CrmHas

LEMMA InHandIs ==
    ASSUME CrmTypes, NEW t \in Nat, HandledTo(t)
    PROVE  /\ InHand = {} => CrmHas(t) /\ \A w \in BookingTasks : worker[w] = Waiting
           /\ \A w \in BookingTasks : worker[w].event # 0 => HasEvent(w, t) /\ CrmHas(t - 1)
<1>1. Waiting.event = 0
  BY DEF Waiting
<1>2. ASSUME NEW w \in BookingTasks, worker[w].event # 0 PROVE HasEvent(w, t) /\ CrmHas(t - 1)
  BY <1>1, <1>2 DEF HandledTo, HasEvent
<1>3. ASSUME InHand = {} PROVE CrmHas(t) /\ \A w \in BookingTasks : worker[w] = Waiting
  <2>1. \A w \in BookingTasks : worker[w].event = 0
    BY <1>3 DEF InHand
  <2>2. QED BY <2>1 DEF HandledTo, HasEvent
<1>4. QED BY <1>2, <1>3

\* A step that leaves what the scheduling tool tells alone.
LEMMA ToldStill ==
    ASSUME BookedTypes, ToldRight, UNCHANGED <<booked, events>>
    PROVE  /\ BookedTypes' /\ ToldRight'
           /\ \A k, x : BookedAfter(k, x)' <=> BookedAfter(k, x)
           /\ \A h, id : MadeBy(h, id)' <=> MadeBy(h, id)
<1>1. \A k, x : BookedAfter(k, x)' <=> BookedAfter(k, x)
  BY DEF BookedAfter
<1>2. \A h, id : MadeBy(h, id)' <=> MadeBy(h, id)
  BY DEF MadeBy
<1>3. BookedTypes' /\ ToldRight'
  BY DEF BookedTypes, ToldRight, BookedAfter
<1>4. QED BY <1>1, <1>2, <1>3

LEMMA HasUnchanged ==
    ASSUME BookedTypes, ToldRight, UNCHANGED <<booked, events, appointment, ref>>, NEW h, CrmHas(h)
    PROVE  CrmHas(h)'
<1>1. \A x : OpenIs(x)' <=> OpenIs(x)
  BY DEF OpenIs
<1>2. QED BY <1>1, ToldStill DEF CrmHas

LEMMA TakeBookingStep ==
    ASSUME BookInv, serial', NEW w \in BookingTasks, NEW k \in DOMAIN events, Take(w, k)
    PROVE  BookInv'
<1> DEFINE e == events[k]
           found == IF e.kind = "lead" THEN 0
                    ELSE IF ref[e.id] # 0 THEN ref[e.id]
                    ELSE IF e.replaces # 0 THEN ref[e.replaces] ELSE 0
           row == [event |-> k, moved |-> found,
                   open |-> found # 0 /\ appointment[found].open, matched |-> Matches(e)]
<1>1. /\ k \notin taken /\ taken' = taken \cup {k} /\ InHand = {} /\ \A j \in 1..(k - 1) : j \in taken
      /\ IF Handled(e) /\ ~(Cancels(e) /\ found = 0) THEN worker' = [worker EXCEPT ![w] = row] ELSE UNCHANGED worker
      /\ UNCHANGED <<booked, events, appointment, ref, contacts>> /\ serial
  BY DEF Take
<1>2. /\ BookedTypes /\ ToldRight /\ CrmTypes /\ \E t \in 0..Len(events) : HandledTo(t)
  BY <1>1 DEF BookInv
<1>3. PICK t \in 0..Len(events) : HandledTo(t)
  BY <1>2
<1>4. taken = 1..t /\ CrmHas(t) /\ \A v \in BookingTasks : worker[v] = Waiting
  BY <1>1, <1>2, <1>3, InHandIs DEF HandledTo
<1>5. t \in Nat /\ k \in 1..Len(events) /\ Len(events) \in Nat /\ k = t + 1 /\ k - 1 = t
  <2>1. t \in Nat /\ k \in 1..Len(events) /\ Len(events) \in Nat
    BY <1>2 DEF BookedTypes
  <2>2. k > t
    BY <1>1, <1>4, <2>1
  <2>3. ~(k > t + 1)
    <3>1. SUFFICES ASSUME k > t + 1 PROVE FALSE
      OBVIOUS
    <3>2. t + 1 \in 1..(k - 1)
      BY <2>1, <3>1
    <3>3. t + 1 \notin 1..t
      BY <2>1
    <3>4. QED BY <1>1, <1>4, <3>2, <3>3
  <2>4. QED BY <2>1, <2>2, <2>3
<1>6. taken' = 1..k
  BY <1>1, <1>4, <1>5
<1>7. PICK x \in 0..MaxBookings : BookedAfter(k - 1, x) /\ OpenIs(x)
  BY <1>4, <1>5 DEF CrmHas
<1>8. /\ e.kind \in {"created", "canceled", "rescheduled", "lead"}
      /\ e.kind = "created" => e.id \in Ids /\ e.replaces = x /\ ref[e.id] = 0
      /\ e.kind = "canceled" => e.id = x /\ x \in Ids
  BY <1>2, <1>4, <1>5, <1>7, BookingNext DEF CrmHas
<1>9. BookedTypes' /\ ToldRight' /\ CrmHas(t)'
  BY <1>1, <1>2, <1>4, ToldStill, HasUnchanged
<1>10. CASE Handled(e) /\ ~(Cancels(e) /\ found = 0)
  <2>1. e.kind # "rescheduled" /\ worker' = [worker EXCEPT ![w] = row]
    BY <1>1, <1>10 DEF Handled
  <2>2. found \in 0..Len(appointment) /\ Len(appointment) \in Nat
    <3>1. /\ e.kind # "lead" => e.id \in Ids /\ e.replaces \in 0..MaxBookings
          /\ e.kind # "lead" /\ e.replaces # 0 => e.replaces \in Ids
      BY <1>2, EventRow DEF BookedTypes, Ids
    <3>2. QED BY <1>2, <3>1 DEF CrmTypes
  <2>3. e.kind = "created" => found = (IF e.replaces # 0 THEN ref[e.replaces] ELSE 0)
    BY <1>8
  <2>4. e.kind = "created" /\ found # 0 => appointment[found].open
    BY <1>7, <1>8, <2>3 DEF OpenIs
  <2>5. PICK y : y = found
    OBVIOUS
  <2> HIDE DEF found
  <2>6. \A n \in DOMAIN appointment : appointment[n].open \in BOOLEAN
    BY <1>2, AppointmentRow
  <2>7. (found # 0 /\ appointment[found].open) \in BOOLEAN /\ Matches(e) \in BOOLEAN
    BY <2>2, <2>6 DEF Matches
  <2>8. /\ row \in [event : Nat, moved : Nat, open : BOOLEAN, matched : BOOLEAN]
        /\ row.event = k /\ row.moved = found /\ row.matched = Matches(e)
    BY <1>5, <2>2, <2>7
  <2>9. e.kind = "created" /\ found # 0 => row.open
    BY <2>4
  <2> HIDE DEF row
  <2>10. /\ worker' \in [BookingTasks -> [event : Nat, moved : Nat, open : BOOLEAN, matched : BOOLEAN]]
         /\ worker'[w] = row /\ \A v \in BookingTasks \ {w} : worker'[v] = worker[v]
    BY <1>2, <2>1, <2>8 DEF CrmTypes
  <2>11. CrmTypes'
    BY <1>1, <1>2, <2>10 DEF CrmTypes
  <2>12. HasEvent(w, k)'
    BY <1>1, <1>4, <1>5, <2>1, <2>3, <2>8, <2>9, <2>10 DEF HasEvent, Matches
  <2>13. HandledTo(k)'
    <3>1. CrmHas(k - 1)'
      BY <1>5, <1>9
    <3>2. QED BY <1>6, <2>12, <3>1 DEF HandledTo
  <2>14. QED BY <1>1, <1>5, <1>9, <2>11, <2>13 DEF BookInv
<1>11. CASE ~(Handled(e) /\ ~(Cancels(e) /\ found = 0))
  <2>1. UNCHANGED worker
    BY <1>1, <1>11
  <2>2. e.kind = "canceled" => found # 0
    BY <1>7, <1>8 DEF OpenIs, Ids
  <2>3. e.kind = "rescheduled"
    BY <1>8, <1>11, <2>2 DEF Handled, Cancels
  <2>4. CrmHas(k)
    <3>1. CrmHas(k - 1)
      BY <1>4, <1>5
    <3>2. QED BY <1>2, <2>3, <3>1, HasStill
  <2>5. CrmHas(k)' /\ CrmTypes'
    BY <1>1, <1>2, <2>1, <2>4, HasUnchanged DEF CrmTypes
  <2>6. HandledTo(k)'
    BY <1>4, <1>6, <2>1, <2>5 DEF HandledTo
  <2>7. QED BY <1>1, <1>5, <1>9, <2>5, <2>6 DEF BookInv
<1>12. QED BY <1>10, <1>11

LEMMA StoreLeadStep ==
    ASSUME BookInv, serial', NEW w \in BookingTasks, StoreLead(w)
    PROVE  BookInv'
<1>1. /\ worker[w].event # 0 /\ events[worker[w].event].kind = "lead"
      /\ contacts' = IF worker[w].matched THEN contacts ELSE contacts + 1
      /\ worker' = [worker EXCEPT ![w] = Waiting]
      /\ UNCHANGED <<booked, events, taken, appointment, ref, serial>>
  BY DEF StoreLead
<1>2. /\ BookedTypes /\ ToldRight /\ CrmTypes /\ \E t \in 0..Len(events) : HandledTo(t)
  BY <1>1 DEF BookInv
<1>3. PICK t \in 0..Len(events) : HandledTo(t)
  BY <1>2
<1>4. t \in Nat /\ Len(events) \in Nat
  BY <1>2 DEF BookedTypes
<1>5. HasEvent(w, t) /\ CrmHas(t - 1)
  BY <1>1, <1>2, <1>3, <1>4, InHandIs
<1>6. t \in DOMAIN events /\ events[t].kind = "lead" /\ worker[w].event = t
  BY <1>1, <1>2, <1>4, <1>5 DEF HasEvent, BookedTypes
<1>7. CrmHas(t)
  BY <1>2, <1>5, <1>6, HasStill
<1>8. BookedTypes' /\ ToldRight' /\ CrmHas(t)'
  BY <1>1, <1>2, <1>7, ToldStill, HasUnchanged
<1>9. contacts' \in {0, 1}
  BY <1>1, <1>2, <1>5 DEF HasEvent, CrmTypes
<1>10. Waiting \in [event : Nat, moved : Nat, open : BOOLEAN, matched : BOOLEAN]
  BY DEF Waiting
<1>11. CrmTypes'
  BY <1>1, <1>2, <1>9, <1>10 DEF CrmTypes
<1>12. \A v \in BookingTasks : worker'[v] = Waiting
  BY <1>1, <1>2, <1>5 DEF HasEvent, CrmTypes
<1>13. HandledTo(t)'
  BY <1>1, <1>3, <1>8, <1>12 DEF HandledTo
<1>14. QED BY <1>1, <1>8, <1>11, <1>13 DEF BookInv

LEMMA ContactsMade ==
    ASSUME NEW w, SaveAppointment(w), contacts \in {0, 1}, worker[w].matched = (contacts = 1)
    PROVE  contacts' \in {0, 1}
<1>1. contacts' = IF worker[w].moved # 0 \/ worker[w].matched THEN contacts ELSE contacts + 1
  BY DEF SaveAppointment
<1>2. CASE contacts = 0
  <2>1. 0 + 1 = 1
    OBVIOUS
  <2>2. QED BY <1>1, <1>2, <2>1
<1>3. CASE contacts = 1
  BY <1>1, <1>3
<1>4. QED BY <1>2, <1>3

LEMMA SaveAppointmentStep ==
    ASSUME BookInv, serial', NEW w \in BookingTasks, SaveAppointment(w)
    PROVE  BookInv'
<1> DEFINE e == events[worker[w].event]
           item == IF ref[e.id] # 0 THEN ref[e.id] ELSE worker[w].moved
           same == {n \in DOMAIN appointment : appointment[n].time = e.id}
           reused == IF item # 0 THEN item
                     ELSE IF same # {} THEN CHOOSE n \in same : \A m \in same : n <= m ELSE 0
           open == IF ref[e.id] # 0 \/ item = 0 THEN reused = 0 \/ appointment[reused].open
                   ELSE worker[w].open
           saved == [open |-> open, time |-> e.id]
           Rows == [open : BOOLEAN, time : Ids]
<1>1. /\ worker[w].event # 0 /\ e.kind # "lead"
      /\ contacts' = IF worker[w].moved # 0 \/ worker[w].matched THEN contacts ELSE contacts + 1
      /\ Cancels(e) => /\ appointment' = IF item = 0 THEN appointment
                                         ELSE [appointment EXCEPT ![item].open = FALSE]
                       /\ UNCHANGED ref
      /\ ~Cancels(e) => /\ appointment' = IF reused = 0 THEN Append(appointment, saved)
                                          ELSE [appointment EXCEPT ![reused] = saved]
                        /\ ref' = [ref EXCEPT ![e.id] = IF reused = 0 THEN Len(appointment) + 1 ELSE reused]
      /\ worker' = [worker EXCEPT ![w] = Waiting]
      /\ UNCHANGED <<booked, events, taken, serial>>
  BY DEF SaveAppointment
<1>2. /\ BookedTypes /\ ToldRight /\ CrmTypes /\ \E t \in 0..Len(events) : HandledTo(t)
  BY <1>1 DEF BookInv
<1>3. PICK t \in 0..Len(events) : HandledTo(t)
  BY <1>2
<1>4. t \in Nat /\ Len(events) \in Nat
  BY <1>2 DEF BookedTypes
<1>5. HasEvent(w, t) /\ CrmHas(t - 1)
  BY <1>1, <1>2, <1>3, <1>4, InHandIs
<1>6. t \in DOMAIN events /\ worker[w].event = t /\ e = events[t]
  <2>1. t # 0 /\ worker[w].event = t
    BY <1>5 DEF HasEvent
  <2>2. t \in 1..Len(events) /\ DOMAIN events = 1..Len(events)
    BY <1>2, <1>4, <2>1 DEF BookedTypes
  <2>3. QED BY <2>1, <2>2
<1>7. PICK x \in 0..MaxBookings : BookedAfter(t - 1, x) /\ OpenIs(x)
  BY <1>5 DEF CrmHas
<1>8. /\ e.kind \in {"created", "canceled"}
      /\ e.kind = "created" => /\ e.id \in Ids /\ e.replaces = x /\ BookedAfter(t, e.id)
                               /\ ~MadeBy(t - 1, e.id)
      /\ e.kind = "canceled" => e.id = x /\ x \in Ids /\ BookedAfter(t, 0)
      /\ t \in Nat \ {0}
  BY <1>1, <1>2, <1>5, <1>6, <1>7, BookingNext DEF HasEvent
<1>9. /\ BookedTypes' /\ ToldRight' /\ (\A k, y : BookedAfter(k, y)' <=> BookedAfter(k, y))
      /\ \A h, id : MadeBy(h, id)' <=> MadeBy(h, id)
  BY <1>1, <1>2, ToldStill
<1>10. contacts' \in {0, 1}
  <2>1. contacts \in {0, 1}
    BY <1>2 DEF CrmTypes
  <2>2. worker[w].matched = (contacts = 1)
    BY <1>5 DEF HasEvent
  <2>3. QED BY <2>1, <2>2, ContactsMade
<1>11. Waiting \in [event : Nat, moved : Nat, open : BOOLEAN, matched : BOOLEAN]
  BY DEF Waiting
<1>12. /\ \A v \in BookingTasks : worker'[v] = Waiting
       /\ worker' \in [BookingTasks -> [event : Nat, moved : Nat, open : BOOLEAN, matched : BOOLEAN]]
  BY <1>1, <1>2, <1>5, <1>11 DEF HasEvent, CrmTypes
<1>13. /\ appointment \in Seq(Rows) /\ ref \in [Ids -> 0..Len(appointment)] /\ Len(appointment) \in Nat
       /\ DOMAIN appointment = 1..Len(appointment)
  BY <1>2 DEF CrmTypes
<1>14. \A id : MadeBy(t - 1, id) => MadeBy(t, id)
  BY <1>8, MadeStill
<1>15. /\ \A id \in Ids : ref[id] # 0 => MadeBy(t - 1, id)
       /\ \A n \in DOMAIN appointment : MadeBy(t - 1, appointment[n].time)
  BY <1>5 DEF CrmHas
<1> HIDE DEF e
<1>16. ASSUME appointment' \in Seq(Rows), ref' \in [Ids -> 0..Len(appointment')],
              NEW y \in 0..MaxBookings, BookedAfter(t, y), OpenIs(y)',
              \A id \in Ids : ref'[id] # 0 => MadeBy(t, id),
              \A n \in DOMAIN appointment' : MadeBy(t, appointment'[n].time)
       PROVE  BookInv'
  <2>1. CrmTypes'
    BY <1>10, <1>12, <1>16 DEF CrmTypes
  <2>2. CrmHas(t)'
    <3>1. BookedAfter(t, y)' /\ \A id \in Ids : (ref'[id] # 0 => MadeBy(t, id)')
      BY <1>9, <1>16
    <3>2. ASSUME NEW n \in DOMAIN appointment' PROVE MadeBy(t, appointment[n].time)'
      <4>1. PICK i : i = appointment'[n].time
        OBVIOUS
      <4>2. MadeBy(t, i)'
        BY <1>9, <1>16, <4>1
      <4>3. QED BY <4>1, <4>2 DEF MadeBy
    <3>3. QED BY <1>16, <3>1, <3>2 DEF CrmHas
  <2>3. HandledTo(t)'
    BY <1>1, <1>3, <1>12, <2>2 DEF HandledTo
  <2>4. QED BY <1>1, <1>9, <2>1, <2>3 DEF BookInv
<1>17. CASE e.kind = "created"
  <2>1. /\ ref[e.id] = 0 /\ item = worker[w].moved /\ same = {} /\ reused = worker[w].moved
        /\ e.id \in Ids
    BY <1>8, <1>15, <1>17
  <2>2. /\ worker[w].moved = IF x # 0 THEN ref[x] ELSE 0
        /\ worker[w].moved # 0 => worker[w].open = TRUE
    <3>1. /\ worker[w].moved = IF e.replaces # 0 THEN ref[e.replaces] ELSE 0
          /\ worker[w].moved # 0 => worker[w].open
      BY <1>5, <1>6, <1>17 DEF HasEvent
    <3>2. worker[w].open \in BOOLEAN
      BY <1>2 DEF CrmTypes
    <3>3. QED BY <1>8, <1>17, <3>1, <3>2
  <2>3. /\ x = 0 => worker[w].moved = 0 /\ \A n \in DOMAIN appointment : ~appointment[n].open
        /\ x # 0 => /\ worker[w].moved = ref[x] /\ ref[x] \in DOMAIN appointment
                    /\ \A n \in DOMAIN appointment : n # ref[x] => ~appointment[n].open
    <3>1. CASE x = 0
      BY <1>7, <2>2, <3>1 DEF OpenIs
    <3>2. CASE x # 0
      <4>1. ref[x] # 0 /\ \A n \in DOMAIN appointment : appointment[n].open => n = ref[x]
        BY <1>7, <3>2 DEF OpenIs
      <4>2. ref[x] \in 0..Len(appointment)
        BY <1>13, <3>2 DEF Ids
      <4>3. ref[x] \in DOMAIN appointment
        BY <1>13, <4>1, <4>2
      <4>4. QED BY <2>2, <3>2, <4>1, <4>3
    <3>3. QED BY <3>1, <3>2
  <2>4. open = TRUE
    BY <2>1, <2>2
  <2>5. PICK row \in Rows : row = saved
    BY <2>1, <2>4
  <2>6. row.open = TRUE /\ row.time = e.id
    BY <2>4, <2>5
  <2>7. /\ appointment' = IF reused = 0 THEN Append(appointment, row) ELSE [appointment EXCEPT ![reused] = row]
        /\ ref' = [ref EXCEPT ![e.id] = IF reused = 0 THEN Len(appointment) + 1 ELSE reused]
    BY <1>1, <1>17, <2>5 DEF Cancels
  <2> HIDE DEF item, same, reused, open, saved
  <2>8. PICK r : r = reused
    OBVIOUS
  <2>9. /\ appointment' \in Seq(Rows) /\ Len(appointment') >= Len(appointment) /\ Len(appointment') \in Nat
        /\ ref'[e.id] \in DOMAIN appointment' /\ appointment'[ref'[e.id]] = row
        /\ \A n \in DOMAIN appointment' : n # ref'[e.id] => n \in DOMAIN appointment /\ appointment'[n] = appointment[n]
        /\ r # 0 => r = ref'[e.id] /\ r = ref[x] /\ x # 0
        /\ r = 0 => x = 0
    <3>1. ref'[e.id] = IF r = 0 THEN Len(appointment) + 1 ELSE r
      BY <1>13, <2>1, <2>7, <2>8
    <3>2. CASE r = 0
      BY <1>13, <2>1, <2>3, <2>7, <2>8, <3>1, <3>2
    <3>3. CASE r # 0
      <4>1. x # 0 /\ r = ref[x] /\ r \in DOMAIN appointment
        BY <2>1, <2>3, <2>8, <3>3
      <4>2. appointment' = [appointment EXCEPT ![r] = row]
        BY <2>7, <2>8, <3>3
      <4>3. QED BY <1>13, <3>1, <3>3, <4>1, <4>2, ExceptSeq
    <3>4. QED BY <3>2, <3>3
  <2>10. ref' \in [Ids -> 0..Len(appointment')] /\ \A id \in Ids \ {e.id} : ref'[id] = ref[id]
    <3>1. PICK v : v = ref'[e.id]
      OBVIOUS
    <3>2. v \in 0..Len(appointment')
      BY <2>9, <3>1
    <3>3. ref' = [ref EXCEPT ![e.id] = v]
      BY <1>13, <2>1, <2>7, <3>1
    <3>4. \A m \in 0..Len(appointment) : m \in 0..Len(appointment')
      BY <1>13, <2>9
    <3>5. \A id \in Ids : ref'[id] = IF id = e.id THEN v ELSE ref[id]
      BY <1>13, <3>3
    <3>6. QED BY <1>13, <3>2, <3>3, <3>4, <3>5
  <2>11. PICK i \in Ids : i = e.id
    BY <2>1
  <2>12. OpenIs(i)'
    <3>1. \A n \in DOMAIN appointment' : appointment'[n].open => n = ref'[i]
      <4>1. ASSUME NEW n \in DOMAIN appointment', n # ref'[i] PROVE ~appointment'[n].open
        <5>1. n \in DOMAIN appointment /\ appointment'[n] = appointment[n]
          BY <2>9, <2>11, <4>1
        <5>2. x # 0 => n # ref[x]
          BY <2>1, <2>2, <2>8, <2>9, <2>3, <2>11, <4>1
        <5>3. QED BY <2>3, <5>1, <5>2
      <4>2. QED BY <4>1
    <3>2. i # 0 /\ ref'[i] # 0 /\ appointment'[ref'[i]].open /\ appointment'[ref'[i]].time = i
      BY <2>6, <2>9, <2>11 DEF Ids
    <3>3. QED BY <3>1, <3>2 DEF OpenIs
  <2>13. MadeBy(t, e.id)
    BY <1>6, <1>8, <1>17 DEF MadeBy
  <2>14. \A id \in Ids : ref'[id] # 0 => MadeBy(t, id)
    BY <1>14, <1>15, <2>10, <2>13
  <2>15. \A n \in DOMAIN appointment' : MadeBy(t, appointment'[n].time)
    BY <1>14, <1>15, <2>6, <2>9, <2>13
  <2>16. i \in 0..MaxBookings /\ BookedAfter(t, i)
    BY <1>8, <1>17, <2>11 DEF Ids
  <2>17. QED BY <1>16, <2>9, <2>10, <2>12, <2>14, <2>15, <2>16
<1>18. CASE e.kind = "canceled"
  <2>1. e.id = x /\ x \in Ids /\ item = ref[x] /\ ref[x] \in DOMAIN appointment
    BY <1>7, <1>8, <1>13, <1>18 DEF OpenIs, Ids
  <2>2. \A n \in DOMAIN appointment : n # ref[x] => ~appointment[n].open
    BY <1>7 DEF OpenIs
  <2>3. appointment' = [appointment EXCEPT ![ref[x]].open = FALSE] /\ ref' = ref
    BY <1>1, <1>13, <1>18, <2>1 DEF Cancels
  <2>4. PICK r : r = ref[x]
    OBVIOUS
  <2>5. appointment[r] \in Rows /\ r \in 1..Len(appointment)
    BY <1>2, <1>13, <2>1, <2>4, AppointmentRow
  <2>6. PICK row \in Rows : row = [appointment[r] EXCEPT !.open = FALSE]
    BY <2>5
  <2>7. row.open = FALSE /\ row.time = appointment[r].time
    BY <2>5, <2>6
  <2>8. appointment' = [appointment EXCEPT ![r] = row]
    BY <2>3, <2>4, <2>6
  <2>9. /\ appointment' \in Seq(Rows) /\ Len(appointment') = Len(appointment)
        /\ \A n \in DOMAIN appointment' :
              n \in DOMAIN appointment /\ appointment'[n] = IF n = r THEN row ELSE appointment[n]
    BY <1>13, <2>5, <2>8, ExceptSeq
  <2>10. \A n \in DOMAIN appointment' : ~appointment'[n].open
    BY <2>2, <2>4, <2>7, <2>9
  <2>11. OpenIs(0)'
    BY <2>10 DEF OpenIs
  <2>12. \A n \in DOMAIN appointment' : MadeBy(t, appointment'[n].time)
    <3>1. \A n \in DOMAIN appointment' : n \in DOMAIN appointment /\ appointment'[n].time = appointment[n].time
      BY <2>7, <2>9
    <3>2. QED BY <1>14, <1>15, <3>1
  <2>13. ref' \in [Ids -> 0..Len(appointment')] /\ \A id \in Ids : ref'[id] # 0 => MadeBy(t, id)
    BY <1>13, <1>14, <1>15, <2>3, <2>9
  <2>14. 0 \in 0..MaxBookings
    BY BookingsAssumption
  <2>15. QED BY <1>8, <1>16, <1>18, <2>9, <2>11, <2>12, <2>13, <2>14
<1>19. QED BY <1>8, <1>17, <1>18


LEMMA BookInvInit == BookingsInit => BookInv
<1> SUFFICES ASSUME BookingsInit PROVE BookInv
  OBVIOUS
<1>1. /\ booked = [now |-> 0, last |-> 0, leads |-> 0] /\ events = <<>> /\ taken = {}
      /\ worker = [w \in BookingTasks |-> Waiting] /\ appointment = <<>>
      /\ ref = [id \in Ids |-> 0] /\ contacts = 0
  BY DEF BookingsInit
<1>2. 0 \in 0..MaxBookings /\ 0 \in 0..MaxLeads
  BY BookingsAssumption
<1>3. booked \in [now : 0..MaxBookings, last : 0..MaxBookings, leads : 0..MaxLeads]
  BY <1>1, <1>2
<1>4. BookedTypes /\ Len(events) = 0 /\ DOMAIN events = {}
  BY <1>1, <1>3 DEF BookedTypes
<1>5. BookedAfter(0, 0)
  BY DEF BookedAfter, BookedBy
<1>6. booked.now = 0 /\ booked.last = 0
  BY <1>1
<1>7. ToldRight
  BY <1>4, <1>5, <1>6 DEF ToldRight
<1>8. Waiting \in [event : Nat, moved : Nat, open : BOOLEAN, matched : BOOLEAN]
  BY DEF Waiting
<1>9. CrmTypes
  <2>1. appointment \in Seq([open : BOOLEAN, time : Ids]) /\ Len(appointment) = 0
    BY <1>1
  <2>2. ref \in [Ids -> 0..Len(appointment)]
    BY <1>1, <2>1
  <2>3. QED BY <1>1, <1>8, <2>1, <2>2 DEF CrmTypes
<1>10. CrmHas(0)
  <2>1. DOMAIN appointment = {} /\ \A id \in Ids : ref[id] = 0
    BY <1>1
  <2>2. OpenIs(0)
    BY <2>1 DEF OpenIs
  <2>3. QED BY <1>2, <1>5, <2>1, <2>2 DEF CrmHas
<1>11. HandledTo(0)
  <2>1. taken = 1..0 /\ \A w \in BookingTasks : worker[w] = Waiting
    BY <1>1
  <2>2. QED BY <1>10, <2>1 DEF HandledTo
<1>12. QED BY <1>4, <1>7, <1>9, <1>11 DEF BookInv

\* Every step keeps the invariant; once events are handled out of order it says nothing more.
LEMMA BookInvStep == ASSUME BookInv, [BookingsNext]_bookingVars PROVE BookInv'
<1>1. CASE ~serial'
  BY <1>1 DEF BookInv
<1>2. CASE serial'
  <2>1. CASE Book
    BY <1>2, <2>1, BookStep
  <2>2. CASE Reschedule
    BY <1>2, <2>2, RescheduleStep
  <2>3. CASE CancelBooking
    BY <1>2, <2>3, CancelBookingStep
  <2>4. ASSUME NEW email \in Spellings, Submit(email) PROVE BookInv'
    BY <1>2, <2>4, SubmitStep
  <2>5. ASSUME NEW w \in BookingTasks, NEW k \in DOMAIN events, Take(w, k) PROVE BookInv'
    BY <1>2, <2>5, TakeBookingStep
  <2>6. ASSUME NEW w \in BookingTasks, StoreLead(w) PROVE BookInv'
    BY <1>2, <2>6, StoreLeadStep
  <2>7. ASSUME NEW w \in BookingTasks, SaveAppointment(w) PROVE BookInv'
    BY <1>2, <2>7, SaveAppointmentStep
  <2>8. CASE UNCHANGED bookingVars
    <3>1. UNCHANGED <<booked, events, taken, worker, appointment, ref, contacts, serial>>
      BY <2>8 DEF bookingVars
    <3>2. BookInv' <=> BookInv
      BY <3>1 DEF BookInv, BookedTypes, ToldRight, CrmTypes, HandledTo, HasEvent, CrmHas,
                  OpenIs, MadeBy, BookedAfter
    <3>3. QED BY <3>2
  <2>9. QED BY <2>1, <2>2, <2>3, <2>4, <2>5, <2>6, <2>7, <2>8 DEF BookingsNext
<1>3. QED BY <1>1, <1>2

\* The one booking open, read off the invariant.
LEMMA OpenAsBooked ==
    ASSUME BookInv, serial, InHand = {}, taken = DOMAIN events
    PROVE  {appointment[n].time : n \in {m \in DOMAIN appointment : appointment[m].open}}
               = {booked.now} \ {0}
<1>1. /\ BookedTypes /\ ToldRight /\ CrmTypes /\ \E t \in 0..Len(events) : HandledTo(t)
  BY DEF BookInv
<1>2. PICK L \in Nat : L = Len(events) /\ DOMAIN events = 1..L
  BY <1>1 DEF BookedTypes
<1>3. PICK t \in 0..L : HandledTo(t)
  BY <1>1, <1>2
<1>4. CrmHas(t) /\ 1..t = 1..L
  <2>1. t \in Nat
    OBVIOUS
  <2>2. CrmHas(t)
    BY <1>1, <1>3, <2>1, InHandIs
  <2>3. taken = 1..t
    BY <1>3 DEF HandledTo
  <2>4. QED BY <1>2, <2>2, <2>3
<1>5. t = L
  <2>1. t \in Nat /\ t <= L
    OBVIOUS
  <2>2. CASE L = 0
    BY <2>1, <2>2
  <2>3. CASE L # 0
    <3>1. L \in 1..t
      BY <1>4, <2>3
    <3>2. QED BY <2>1, <3>1
  <2>4. QED BY <2>2, <2>3
<1>6. PICK x \in 0..MaxBookings : BookedAfter(t, x) /\ OpenIs(x)
  BY <1>4 DEF CrmHas
<1>7. x = booked.now
  <2>1. BookedBy(events, t, x) /\ BookedBy(events, t, booked.now)
    BY <1>1, <1>2, <1>5, <1>6 DEF ToldRight, BookedAfter
  <2>2. QED BY <2>1, BookedByIsOne
<1>8. CASE x = 0
  BY <1>6, <1>7, <1>8 DEF OpenIs
<1>9. CASE x # 0
  <2>1. /\ \A n \in DOMAIN appointment : appointment[n].open => n = ref[x]
        /\ ref[x] # 0 /\ appointment[ref[x]].open /\ appointment[ref[x]].time = x
    BY <1>6, <1>9 DEF OpenIs
  <2>2. ref[x] \in DOMAIN appointment
    BY <1>1, <1>6, <1>9, <2>1 DEF CrmTypes, Ids
  <2>3. {m \in DOMAIN appointment : appointment[m].open} = {ref[x]}
    BY <2>1, <2>2
  <2>4. QED BY <1>7, <1>9, <2>1, <2>3
<1>10. QED BY <1>8, <1>9

\* BookedAsMeant: handled one after the other, the events of the scheduling tool leave open
\* just the booking in force, and the person is one contact (store_booking,
\* save_appointment, match_contact).
THEOREM BookedKept == BookingsSpec => []BookedAsMeant
<1>1. BookInv => BookedAsMeant
  <2>1. BookInv => AppointmentAsBooked
    BY OpenAsBooked DEF AppointmentAsBooked
  <2>2. BookInv => OneContactEach
    BY DEF BookInv, CrmTypes, OneContactEach
  <2>3. QED BY <2>1, <2>2 DEF BookedAsMeant
<1>2. BookInv /\ [BookingsNext]_bookingVars => BookInv'
  BY BookInvStep
<1>3. QED BY BookInvInit, <1>1, <1>2, PTL DEF BookingsSpec

----------------------------------------------------------------------------
\* Side by side, what goes out is done once and recorded as it was.
THEOREM SentAsRecordedKept == Spec => []SentAsRecorded
<1> DEFINE I == CallInv /\ RemindInv /\ TokensInv
<1>1. Init => I
  BY CallInvInit, RemindInvInit, TokensInvInit DEF Init
<1>2. I /\ [Next]_allVars => I'
  <2>1. [Next]_allVars => [ProviderCallsNext]_callVars /\ [RemindNext]_remindVars
                          /\ [TokensNext]_tokenVars
    BY DEF Next, allVars
  <2>2. QED BY <2>1, CallInvStep, RemindInvStep, TokensInvStep
<1>3. I => SentAsRecorded
  BY DEF CallInv, RemindInv, TokensInv, SentAsRecorded
<1>4. QED BY <1>1, <1>2, <1>3, PTL DEF Spec
=============================================================================
