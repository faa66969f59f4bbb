------------------------------ MODULE Calendars ------------------------------
(***************************************************************************)
(* One appointment and the calendars its staff connected                   *)
(* (crm/appointments.py with the calendars of Google Workspace and         *)
(* Microsoft 365): each save in the CRM queues a push that puts an event   *)
(* on the assignee's calendar and takes it off the others; each sync       *)
(* brings back what changed on one calendar, the CRM's own events among    *)
(* it, and saves that to the appointment without a push.  Neither knows    *)
(* of the other.                                                           *)
(***************************************************************************)
EXTENDS Naturals, FiniteSets

CONSTANTS
    Owners,       \* staff who have each connected a calendar
    Slots,        \* times of appointments and events
    PushTasks,    \* push_appointment tasks in hand at once
    MaxEvents,    \* bound on the events ever made
    MaxMoves      \* bound on what staff do, in the CRM and on their calendars

ASSUME CalendarsAssumption ==
    MaxEvents \in Nat /\ MaxMoves \in Nat /\ "none" \notin Owners \cup Slots

VARIABLES
    consult,      \* the appointment
    asked,        \* as it was last saved in the CRM, or read by a push
    calendar,     \* every event: whose, when, who made it and who changed it last
    eventRefs,    \* the ExternalRefs: the events the appointment is linked to
    waits,        \* a push_appointment task waits
    takenOff,     \* remove_appointment_event tasks that wait
    pushing,      \* each push in hand
    unseen,       \* events that changed since their calendar was last read
    batch,        \* what the sync of each calendar read and has not stored yet
    moves,        \* how much staff did
    slipped       \* a call failed, or steps crossed that nothing makes up for

calendarVars == <<consult, asked, calendar, eventRefs, waits, takenOff, pushing, unseen, batch,
                  moves, slipped>>

EventIds == 1..MaxEvents
NoConsult == [there |-> FALSE, who |-> "none", at |-> "none", done |-> FALSE]
Consults == [there : BOOLEAN, who : Owners \cup {"none"}, at : Slots \cup {"none"},
             done : BOOLEAN]
\* An event that is gone is reported once more, as cancelled.  tag is its etag or changeKey.
NoEvent == [of |-> "none", at |-> "none", by |-> "none", set |-> "none", gone |-> TRUE,
            tag |-> 0]
EventRef == [id : EventIds, made : BOOLEAN, tag : Nat]
NotPushing == [step |-> "idle", consult |-> NoConsult, drop |-> {}, old |-> 0, got |-> 0]

CalendarsTypeOK ==
    /\ consult \in Consults /\ asked \in Consults
    /\ \A e \in EventIds :
          calendar[e] # NoEvent => calendar[e].of \in Owners /\ calendar[e].at \in Slots
    /\ \A r \in eventRefs : r \in EventRef
    /\ waits \in BOOLEAN /\ slipped \in BOOLEAN
    /\ takenOff \subseteq EventIds /\ unseen \subseteq EventIds
    /\ \A p \in PushTasks :
          /\ pushing[p].step \in {"idle", "begun", "removed", "saving", "saved"}
          /\ pushing[p].consult \in Consults
    /\ \A o \in Owners : \A e \in batch[o] : e.id \in EventIds /\ e.of = o
    /\ moves \in 0..MaxMoves

----------------------------------------------------------------------------
PushesInHand == {p \in PushTasks : pushing[p].step # "idle"}
Used == {e \in EventIds : calendar[e] # NoEvent}
NextEvent == Cardinality(Used) + 1
LinkedTo(e) == {r \in eventRefs : r.id = e}
RefsOn(o) == {r \in eventRefs : calendar[r.id].of = o}

\* calendar_connections: with no time, no calendar is wanted.
WantedOn(v) == IF v.at # "none" THEN {v.who} \ {"none"} ELSE {}

\* Slip: an appointment that is no longer on any calendar needs no push.
PushIfWanted(v) == WantedOn(v) # {}

\* appointment_saved queues a push only for someone with a calendar or for what is linked,
\* which an event a push in hand is making is not yet.
PushDue(v) == v.who # "none" \/ eventRefs # {}

SavedInCRM(v) ==
    /\ moves < MaxMoves /\ moves' = moves + 1
    /\ consult' = v /\ asked' = v
    /\ waits' = (waits \/ PushDue(v))
    /\ slipped' = (slipped \/ (PushesInHand # {} /\ ~PushDue(v)))
    /\ UNCHANGED <<calendar, eventRefs, takenOff, pushing, unseen, batch>>

SaveConsult(who, at) ==
    /\ consult.there \/ Used = {}
    /\ SavedInCRM([consult EXCEPT !.there = TRUE, !.who = who, !.at = at])

FinishConsult ==
    /\ consult.there
    /\ SavedInCRM([consult EXCEPT !.done = ~@])

\* appointment_deleted.  A push in hand goes on with what it read.
DeleteConsult ==
    /\ consult.there
    /\ moves < MaxMoves /\ moves' = moves + 1
    /\ consult' = NoConsult /\ asked' = NoConsult
    /\ takenOff' = takenOff \cup {r.id : r \in {r \in eventRefs : r.made}}
    /\ eventRefs' = {}
    /\ slipped' = (slipped \/ PushesInHand # {})
    /\ pushing' = [p \in PushTasks |-> [pushing[p] EXCEPT !.consult.there = FALSE]]
    /\ UNCHANGED <<calendar, waits, unseen, batch>>

----------------------------------------------------------------------------
(* push_appointment *)

\* Slip: events that came from the calendar are taken off too.
AllDropped(v) == {r \in eventRefs : calendar[r.id].of \notin WantedOn(v)}

\* Only what the CRM put there is taken off.
Dropped(v) == {r \in eventRefs : r.made /\ calendar[r.id].of \notin WantedOn(v)}

BeginPushing(p) ==
    /\ waits /\ pushing[p] = NotPushing
    /\ waits' = FALSE
    /\ asked' = consult
    /\ pushing' = IF consult.there
                  THEN [pushing EXCEPT ![p] = [NotPushing EXCEPT !.step = "begun",
                            !.consult = consult, !.drop = {r.id : r \in Dropped(consult)}]]
                  ELSE pushing
    /\ slipped' = (slipped \/ PushesInHand # {})
    /\ UNCHANGED <<consult, calendar, eventRefs, takenOff, unseen, batch, moves>>

\* delete_event: an event that is not there is as good as deleted.  remove_event does not
\* say whether it worked.
Deleted(e, ok) ==
    IF ok /\ ~calendar[e].gone
    THEN /\ calendar' = [calendar EXCEPT ![e].gone = TRUE, ![e].set = "crm", ![e].tag = @ + 1]
         /\ unseen' = unseen \cup {e}
         /\ UNCHANGED slipped
    ELSE /\ UNCHANGED <<calendar, unseen>>
         /\ slipped' = (slipped \/ ~ok)

TakeOff(p, e, ok) ==
    /\ pushing[p].step = "begun" /\ e \in pushing[p].drop
    /\ Deleted(e, ok)
    /\ pushing' = [pushing EXCEPT ![p].step = "removed", ![p].got = e]
    /\ UNCHANGED <<consult, asked, eventRefs, waits, takenOff, batch, moves>>

ForgetRef(p) ==
    LET e == pushing[p].got IN
    /\ pushing[p].step = "removed"
    /\ eventRefs' = eventRefs \ LinkedTo(e)
    /\ pushing' = [pushing EXCEPT ![p].step = "begun", ![p].got = 0,
                                  ![p].drop = @ \ {e}]
    /\ UNCHANGED <<consult, asked, calendar, waits, takenOff, unseen, batch, moves, slipped>>

\* A finished appointment stays as it was, and an event from this calendar is its own.
Decide(p) ==
    LET v == pushing[p].consult
        refs == UNION {RefsOn(o) : o \in WantedOn(v)}
    IN
    /\ pushing[p].step = "begun" /\ pushing[p].drop = {}
    /\ \E ref \in IF refs = {} THEN {[id |-> 0, made |-> TRUE]} ELSE refs :
          pushing' = [pushing EXCEPT ![p] =
              IF WantedOn(v) # {} /\ ~v.done /\ ref.made
              THEN [@ EXCEPT !.step = "saving", !.old = ref.id] ELSE NotPushing]
    /\ UNCHANGED <<consult, asked, calendar, eventRefs, waits, takenOff, unseen, batch, moves,
                   slipped>>

\* event_payload, put in place of event e or made anew: no attendees, so the calendar sends
\* no invitations
Payload(v, old, new) ==
    [of |-> v.who, at |-> v.at, by |-> IF new THEN "crm" ELSE old.by, set |-> "crm",
     gone |-> FALSE, tag |-> old.tag + 1]

\* save_event changes the event, or makes one when there is none or it is gone.
PutOnCalendar(p) ==
    LET v == pushing[p].consult
        old == pushing[p].old
        there == old # 0 /\ ~calendar[old].gone
        e == IF there THEN old ELSE NextEvent
    IN
    /\ pushing[p].step = "saving" /\ e \in EventIds
    /\ calendar' = [calendar EXCEPT ![e] = Payload(v, @, ~there)]
    /\ unseen' = unseen \cup {e}
    /\ pushing' = [pushing EXCEPT ![p].step = "saved", ![p].got = e]
    /\ UNCHANGED <<consult, asked, eventRefs, waits, takenOff, batch, moves, slipped>>

\* refs.link, when the event is not the one that was linked; refs.find takes a link to a
\* deleted appointment for none.
LinkEvent(p) ==
    LET old == pushing[p].old
        e == pushing[p].got
    IN
    /\ pushing[p].step = "saved"
    /\ eventRefs' = IF e = old \/ ~pushing[p].consult.there THEN eventRefs
                    ELSE (eventRefs \ (LinkedTo(old) \cup LinkedTo(e)))
                         \cup {[id |-> e, made |-> TRUE, tag |-> 0]}
    /\ pushing' = [pushing EXCEPT ![p] = NotPushing]
    /\ UNCHANGED <<consult, asked, calendar, waits, takenOff, unseen, batch, moves, slipped>>

\* The provider refuses, or the worker stops.
PushBreaks(p) ==
    /\ pushing[p] # NotPushing
    /\ pushing' = [pushing EXCEPT ![p] = NotPushing]
    /\ slipped' = TRUE
    /\ UNCHANGED <<consult, asked, calendar, eventRefs, waits, takenOff, unseen, batch, moves>>

\* remove_appointment_event
RemoveEvent(e, ok) ==
    /\ e \in takenOff
    /\ takenOff' = takenOff \ {e}
    /\ Deleted(e, ok)
    /\ UNCHANGED <<consult, asked, eventRefs, waits, pushing, batch, moves>>

----------------------------------------------------------------------------
(* The owners, on their calendars *)

OwnerSets(e, event) ==
    /\ moves < MaxMoves /\ moves' = moves + 1
    /\ calendar' = [calendar EXCEPT ![e] = [event EXCEPT !.set = "owner", !.tag = @ + 1]]
    /\ unseen' = unseen \cup {e}
    /\ UNCHANGED <<consult, asked, eventRefs, waits, takenOff, pushing, batch, slipped>>

\* An event with the client, and with no other contact.
OwnerAdds(o, at) ==
    /\ NextEvent \in EventIds
    /\ OwnerSets(NextEvent, [NoEvent EXCEPT !.of = o, !.at = at, !.by = "owner",
                                            !.gone = FALSE])

OwnerMoves(e, at) == ~calendar[e].gone /\ OwnerSets(e, [calendar[e] EXCEPT !.at = at])
OwnerDeletes(e) == ~calendar[e].gone /\ OwnerSets(e, [calendar[e] EXCEPT !.gone = TRUE])

----------------------------------------------------------------------------
(* sync_calendar and store_records *)

\* event_record: an event that is gone comes as cancelled, the CRM's own like any other.
Reported(e) ==
    LET event == calendar[e] IN
    [id |-> e, of |-> event.of, at |-> event.at, by |-> event.by, set |-> event.set,
     gone |-> event.gone, tag |-> event.tag]

\* What changed since the last reading; the position is saved once it is stored.
ReadCalendar(o) ==
    LET found == {e \in unseen : calendar[e].of = o} IN
    /\ batch[o] = {} /\ found # {}
    /\ batch' = [batch EXCEPT ![o] = {Reported(e) : e \in found}]
    /\ unseen' = unseen \ found
    /\ UNCHANGED <<consult, asked, calendar, eventRefs, waits, takenOff, pushing, moves,
                   slipped>>

\* save_appointment: the appointment linked to the event, else one of the same client at the
\* same time, else a new one, of the calendar's owner.
SavedFrom(o, e) ==
    /\ consult' = [consult EXCEPT !.there = TRUE, !.at = e.at, !.who = o]
    /\ eventRefs' = (eventRefs \ LinkedTo(e.id)) \cup
                    {[id |-> e.id, tag |-> e.tag, made |-> \E r \in LinkedTo(e.id) : r.made]}

\* store_event: without a link, only an event with the one client is stored.  A second
\* appointment, of a time of its own, is not followed.  Nothing makes up for an owner's change
\* read before its event was linked, or one of an event that a push is about to take off.
StoreEvent(o, e) ==
    LET linked == LinkedTo(e.id)
        new == \A r \in linked : r.tag # e.tag
        clients == e.by = "owner" /\ (consult.there => consult.at = e.at)
    IN
    /\ e \in batch[o]
    /\ batch' = [batch EXCEPT ![o] = @ \ {e}]
    /\ CASE e.gone /\ linked # {} ->
              consult' = [consult EXCEPT !.done = TRUE] /\ UNCHANGED eventRefs
         [] ~e.gone /\ new /\ (linked # {} \/ clients) -> SavedFrom(o, e)
         [] OTHER -> UNCHANGED <<consult, eventRefs>>
    /\ slipped' = (slipped \/ (linked = {} /\ e.by = "crm" /\ e.set = "owner")
                           \/ \E p \in PushTasks : e.id \in pushing[p].drop)
    /\ UNCHANGED <<asked, calendar, waits, takenOff, pushing, unseen, moves>>

----------------------------------------------------------------------------
CalendarsInit ==
    /\ consult = NoConsult /\ asked = NoConsult
    /\ calendar = [e \in EventIds |-> NoEvent]
    /\ eventRefs = {} /\ waits = FALSE /\ takenOff = {}
    /\ pushing = [p \in PushTasks |-> NotPushing]
    /\ unseen = {} /\ batch = [o \in Owners |-> {}]
    /\ moves = 0 /\ slipped = FALSE

CalendarsNext ==
    \/ FinishConsult \/ DeleteConsult
    \/ \E who \in Owners \cup {"none"}, at \in Slots \cup {"none"} : SaveConsult(who, at)
    \/ \E p \in PushTasks :
          \/ BeginPushing(p) \/ ForgetRef(p) \/ Decide(p) \/ PutOnCalendar(p)
          \/ LinkEvent(p) \/ PushBreaks(p)
          \/ \E e \in EventIds, ok \in BOOLEAN : TakeOff(p, e, ok)
    \/ \E e \in EventIds :
          \/ OwnerDeletes(e) \/ \E at \in Slots : OwnerMoves(e, at)
          \/ \E ok \in BOOLEAN : RemoveEvent(e, ok)
    \/ \E o \in Owners :
          \/ ReadCalendar(o) \/ \E at \in Slots : OwnerAdds(o, at)
          \/ \E e \in batch[o] : StoreEvent(o, e)

CalendarsSpec == CalendarsInit /\ [][CalendarsNext]_calendarVars

----------------------------------------------------------------------------
\* An event its owner made is never changed or taken off by the CRM, however the links to
\* it came about (push_appointment: "only events the CRM created are changed").
OwnersEventsKept == \A e \in Used : calendar[e].by = "owner" => calendar[e].set = "owner"

\* When every push and sync has run and none went astray, the CRM's events are as the
\* appointment: one on the calendar of its assignee and at its time while it is open, no
\* second one ever, and none once it is deleted or has no time.  (One that is also linked to
\* an owner's event follows that event, and nothing tells the other calendars.)
CalendarsAgree ==
    LET ours == {e \in Used : calendar[e].by = "crm" /\ ~calendar[e].gone} IN
    /\ ~waits /\ ~slipped /\ takenOff = {} /\ PushesInHand = {}
    /\ unseen = {} /\ \A o \in Owners : batch[o] = {}
    /\ \A r \in eventRefs : r.made
    =>  /\ Cardinality(ours) <= 1
        /\ \A e \in ours : /\ consult.there
                           /\ consult.done \/ ( /\ calendar[e].of = consult.who
                                              /\ calendar[e].at = consult.at)
        /\ WantedOn(consult) # {} /\ ~consult.done => ours # {}

\* Calendars show the appointment, and stay their owners' (appointments.py).
CalendarsMatch == OwnersEventsKept /\ CalendarsAgree

\* A sync changes the time or the assignee of an appointment, or finishes it, against what
\* was last saved or pushed, only as the
\* owner of the calendar did, or when it crosses a push: one waits, is in hand or went
\* astray, or the event has changed since it was read (store_event knows none of that);
\* or when an owner's event and the CRM's are both the appointment's, or it was finished,
\* after which its event stays as it is.
MovesExplained ==
    [][\A o \in Owners : \A e \in batch[o] :
          e \notin batch'[o] /\ consult' # consult /\ consult' # asked =>
              \/ e.set = "owner"
              \/ waits \/ PushesInHand # {} \/ slipped
              \/ e.tag # calendar[e.id].tag
              \/ consult.done \/ \E r \in eventRefs : ~r.made]_calendarVars
=============================================================================
