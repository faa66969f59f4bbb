----------------------------- MODULE WebhookInbox -----------------------------
(***************************************************************************)
(* The way of a provider's event through crm/connect: receive_webhook      *)
(* (views.py) stores it once and queues a task when the row has committed; *)
(* process_webhook_event (tasks.py) hands its records to the parts of the  *)
(* CRM.  Providers repeat an event until it is acknowledged, and sometimes *)
(* afterwards.                                                             *)
(***************************************************************************)
EXTENDS Naturals

CONSTANTS
    Events,     \* the event IDs a provider sends
    Workers,    \* worker processes
    MaxPosts,   \* bound on the times the provider posts each event
    MaxCrashes  \* bound on the processes that go away in the middle

ASSUME InboxAssumption ==
    /\ Events # {} /\ "nothing" \notin Events /\ Workers # {}
    /\ MaxPosts \in Nat \ {0}
    /\ MaxCrashes \in Nat

VARIABLES
    accepting,  \* the connection's status and address accept events
    event,      \* the WebhookEvent row of each ID
    posting,    \* rows that have committed and whose task is not queued yet
    tasks,      \* how many tasks of each event wait for a worker
    handling,   \* the event each worker is handling
    acked,      \* the events the provider has been told are received
    posts,      \* how often each event was posted
    stopped     \* processes that went away in the middle

inbox == <<event, posting, tasks, handling, acked>>
inboxVars == <<accepting, event, posting, tasks, handling, acked, posts, stopped>>

NoEvent == "nothing"
NoRow == [status |-> "none", attempts |-> 0, payload |-> FALSE]
EventStatuses == {"none", "queued", "processed", "failed"}

InboxTypeOK ==
    /\ accepting \in BOOLEAN
    /\ event \in [Events -> [status : EventStatuses, attempts : Nat, payload : BOOLEAN]]
    /\ posting \subseteq Events
    /\ tasks \in [Events -> Nat]
    /\ handling \in [Workers -> Events \cup {NoEvent}]
    /\ acked \subseteq Events
    /\ posts \in [Events -> 0..MaxPosts]
    /\ stopped \in 0..MaxCrashes

----------------------------------------------------------------------------
\* receive_webhook

Post(e) ==
    /\ posts[e] < MaxPosts
    /\ posts' = [posts EXCEPT ![e] = @ + 1]
    /\ UNCHANGED <<accepting, stopped>>

\* No connection with this address accepts events, or the signature or the event is
\* not right: nothing is stored and the provider is told so.
Refuse(e) ==
    /\ Post(e)
    /\ UNCHANGED inbox

\* The first time, the event is stored ...
Receive(e) ==
    /\ Post(e)
    /\ accepting
    /\ event[e].status = "none"
    /\ event' = [event EXCEPT ![e] = [status |-> "queued", attempts |-> 0, payload |-> TRUE]]
    /\ posting' = posting \cup {e}
    /\ UNCHANGED <<tasks, handling, acked>>

\* ... and when that has committed its task is queued, and the provider answered.
QueueTask(e) ==
    /\ e \in posting
    /\ posting' = posting \ {e}
    /\ tasks' = [tasks EXCEPT ![e] = @ + 1]
    /\ acked' = acked \cup {e}
    /\ UNCHANGED <<accepting, event, handling, posts, stopped>>

\* Slip: a repeated event is queued again.
QueueRepeat(e) ==
    /\ Post(e)
    /\ accepting
    /\ event[e].status # "none"
    /\ acked' = acked \cup {e}
    /\ tasks' = [tasks EXCEPT ![e] = @ + 1]
    /\ UNCHANGED <<event, posting, handling>>

\* A repeat finds the unique row and is acknowledged all the same.
Repeat(e) ==
    /\ Post(e)
    /\ accepting
    /\ event[e].status # "none"
    /\ acked' = acked \cup {e}
    /\ UNCHANGED <<event, posting, tasks, handling>>

----------------------------------------------------------------------------
\* process_webhook_event

\* A task whose event was handled already does nothing.
TaskForNothing(w, e) ==
    /\ handling[w] = NoEvent
    /\ tasks[e] > 0
    /\ event[e].status = "processed"
    /\ tasks' = [tasks EXCEPT ![e] = @ - 1]
    /\ UNCHANGED <<accepting, event, posting, handling, acked, posts, stopped>>

TakeTask(w, e) ==
    /\ handling[w] = NoEvent
    /\ tasks[e] > 0
    /\ event[e].status # "processed"
    /\ tasks' = [tasks EXCEPT ![e] = @ - 1]
    /\ handling' = [handling EXCEPT ![w] = e]
    /\ UNCHANGED <<accepting, event, posting, acked, posts, stopped>>

\* Its records are read and stored; the payload is not kept any longer.
Process(w) ==
    /\ handling[w] # NoEvent
    /\ event' = [event EXCEPT ![handling[w]] =
                    [status |-> "processed", attempts |-> @.attempts + 1, payload |-> FALSE]]
    /\ handling' = [handling EXCEPT ![w] = NoEvent]
    /\ UNCHANGED <<accepting, posting, tasks, acked, posts, stopped>>

\* Slip: what went wrong is not saved, and nobody tries again.
ForgetFailure(w) ==
    /\ handling[w] # NoEvent
    /\ handling' = [handling EXCEPT ![w] = NoEvent]
    /\ UNCHANGED <<accepting, event, posting, tasks, acked, posts, stopped>>

\* The connector is not installed, or reading the records fails.
FailEvent(w) ==
    /\ handling[w] # NoEvent
    /\ event' = [event EXCEPT ![handling[w]] =
                    [status |-> "failed", attempts |-> @.attempts + 1, payload |-> @.payload]]
    /\ handling' = [handling EXCEPT ![w] = NoEvent]
    /\ UNCHANGED <<accepting, posting, tasks, acked, posts, stopped>>

----------------------------------------------------------------------------
\* Staff, and processes that go away

\* Disconnecting ends the address; signing in and turning webhooks on brings one back.
SetAccepting(on) ==
    /\ accepting # on
    /\ accepting' = on
    /\ UNCHANGED <<inbox, posts, stopped>>

StopBeforeQueueing(e) ==
    /\ e \in posting
    /\ stopped < MaxCrashes
    /\ stopped' = stopped + 1
    /\ posting' = posting \ {e}
    /\ UNCHANGED <<accepting, event, tasks, handling, acked, posts>>

\* The task library gives a task that was running up; nothing queues it again.
StopWorker(w) ==
    /\ handling[w] # NoEvent
    /\ stopped < MaxCrashes
    /\ stopped' = stopped + 1
    /\ handling' = [handling EXCEPT ![w] = NoEvent]
    /\ UNCHANGED <<accepting, event, posting, tasks, acked, posts>>

----------------------------------------------------------------------------
InboxInit ==
    /\ accepting = TRUE
    /\ event = [e \in Events |-> NoRow]
    /\ posting = {}
    /\ tasks = [e \in Events |-> 0]
    /\ handling = [w \in Workers |-> NoEvent]
    /\ acked = {}
    /\ posts = [e \in Events |-> 0]
    /\ stopped = 0

Request(e) == Refuse(e) \/ Receive(e) \/ QueueTask(e) \/ Repeat(e)

Work(w) ==
    \/ \E e \in Events : TaskForNothing(w, e) \/ TakeTask(w, e)
    \/ Process(w) \/ FailEvent(w)

InboxNext ==
    \/ \E e \in Events : Request(e) \/ StopBeforeQueueing(e)
    \/ \E w \in Workers : Work(w) \/ StopWorker(w)
    \/ \E on \in BOOLEAN : SetAccepting(on)

\* A request that has committed runs on; the workers keep taking tasks and finishing them.
InboxFairness ==
    /\ \A e \in Events : WF_inboxVars(QueueTask(e))
    /\ \A w \in Workers : WF_inboxVars(Work(w))

InboxSpec == InboxInit /\ [][InboxNext]_inboxVars /\ InboxFairness

----------------------------------------------------------------------------
\* However often and however late a provider repeats an event, it is handed to one
\* worker, once (receive_webhook's unique row and process_webhook_event).
HandledOnce ==
    /\ \A v, w \in Workers : handling[v] = handling[w] => v = w \/ handling[v] = NoEvent
    /\ \A e \in Events :
          /\ event[e].attempts + tasks[e] <= 1
          /\ tasks[e] = 1 \/ event[e].attempts = 1 => \A w \in Workers : handling[w] # e

\* An event the provider was told is received is stored, with its payload until its
\* records are (receive_webhook answers only after the row has committed).
AckedIsKept ==
    \A e \in acked : event[e].status = "processed" \/ event[e].payload

\* Every event the CRM has acknowledged is processed or marked as failed in the end,
\* unless a process went away in the middle.
InboxSettles ==
    \A e \in Events :
        e \in acked ~> event[e].status \in {"processed", "failed"} \/ stopped > 0

\* The inbox loses nothing it has acknowledged and hands nothing out twice
\* (connect/views.py, connect/tasks.py).
InboxKeeps == HandledOnce /\ AckedIsKept
=============================================================================
