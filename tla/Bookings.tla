------------------------------ MODULE Bookings -------------------------------
(***************************************************************************)
(* Bookings and form submissions of one person (crm/appointments.py,       *)
(* crm/leads.py, crm/matching.py) as Calendly and Cal.com report them.  A  *)
(* reschedule makes a new booking that replaces the earlier one.  BookingTasks  *)
(* handle the events, each in any order and at any speed: first they look  *)
(* for the appointment and the contact, then they save.                    *)
(***************************************************************************)
EXTENDS Naturals, Sequences

CONSTANTS
    BookingTasks, \* tasks that handle events
    MaxBookings,  \* bound on the chain of reschedules
    MaxLeads      \* bound on the submissions

ASSUME BookingsAssumption == MaxBookings \in Nat /\ MaxLeads \in Nat

VARIABLES
    booked,       \* the scheduling tool: the booking in force (0: none), and the last
    events,       \* the events sent, in order
    taken,        \* those a worker has taken
    worker,       \* the event each worker handles, and what it found
    appointment,  \* the CRM's appointments: whether each is open, and its booking's time
    ref,          \* the appointment linked to each booking (0: none)
    contacts,     \* the person's contacts
    serial        \* events were so far handled one by one, in order

bookingVars == <<booked, events, taken, worker, appointment, ref, contacts, serial>>

Ids == 1..MaxBookings
Spellings == {"plain", "mixed_case"}
BookingEvents ==
    [kind : {"created", "canceled", "rescheduled"}, id : Ids, replaces : 0..MaxBookings]
    \cup [kind : {"lead"}, id : {0}, replaces : {0}, email : Spellings]
Waiting == [event |-> 0, moved |-> 0, open |-> FALSE, matched |-> FALSE]

BookingsTypeOK ==
    /\ booked \in [now : 0..MaxBookings, last : 0..MaxBookings, leads : 0..MaxLeads]
    /\ events \in Seq(BookingEvents)
    /\ taken \subseteq DOMAIN events
    /\ worker \in [BookingTasks ->
                     [event : Nat, moved : Nat, open : BOOLEAN, matched : BOOLEAN]]
    /\ appointment \in Seq([open : BOOLEAN, time : Ids])
    /\ ref \in [Ids -> 0..Len(appointment)]
    /\ contacts \in Nat
    /\ serial \in BOOLEAN

----------------------------------------------------------------------------
\* The scheduling tool and the website

Tells(new) ==
    /\ events' = events \o new
    /\ UNCHANGED <<taken, worker, appointment, ref, contacts, serial>>

Event(kind, id, replaces) == [kind |-> kind, id |-> id, replaces |-> replaces]

Book ==
    LET id == booked.last + 1 IN
    /\ booked.now = 0
    /\ booked.last < MaxBookings
    /\ booked' = [booked EXCEPT !.now = id, !.last = id]
    /\ Tells(<<Event("created", id, 0)>>)

\* Calendly reports a reschedule as a cancellation and a booking that replaces it.
Reschedule ==
    LET id == booked.last + 1 IN
    /\ booked.now # 0
    /\ booked.last < MaxBookings
    /\ booked' = [booked EXCEPT !.now = id, !.last = id]
    /\ Tells(<<Event("rescheduled", booked.now, 0), Event("created", id, booked.now)>>)

CancelBooking ==
    /\ booked.now # 0
    /\ booked' = [booked EXCEPT !.now = 0]
    /\ Tells(<<Event("canceled", booked.now, 0)>>)

Submit(email) ==
    /\ booked.leads < MaxLeads
    /\ booked' = [booked EXCEPT !.leads = @ + 1]
    /\ Tells(<<[kind |-> "lead", id |-> 0, replaces |-> 0, email |-> email]>>)

----------------------------------------------------------------------------
\* Slip: every cancellation cancels.
HandledAlways(e) == e.kind \in {"created", "canceled", "rescheduled", "lead"}

\* handle_webhook leaves a cancellation that is part of a reschedule to the new booking.
Handled(e) == e.kind # "rescheduled"
Cancels(e) == e.kind \in {"canceled", "rescheduled"}

\* match_contact: exactly one contact has the normalized address.
Matches(e) == contacts = 1

InHand == {worker[w].event : w \in BookingTasks} \ {0}

Take(w, k) ==
    LET e == events[k]
        found == IF e.kind = "lead" THEN 0
                 ELSE IF ref[e.id] # 0 THEN ref[e.id]
                 ELSE IF e.replaces # 0 THEN ref[e.replaces] ELSE 0
    IN
    /\ worker[w] = Waiting
    /\ k \notin taken
    /\ taken' = taken \cup {k}
    /\ serial' = (serial /\ InHand = {} /\ \A j \in 1..(k - 1) : j \in taken)
    /\ IF Handled(e) /\ ~(Cancels(e) /\ found = 0)
       THEN worker' = [worker EXCEPT ![w] =
                [event |-> k, moved |-> found,
                 open |-> found # 0 /\ appointment[found].open, matched |-> Matches(e)]]
       ELSE UNCHANGED worker
    /\ UNCHANGED <<booked, events, appointment, ref, contacts>>

\* store_lead: a person without a contact becomes one.
StoreLead(w) ==
    LET e == events[worker[w].event] IN
    /\ worker[w].event # 0
    /\ e.kind = "lead"
    /\ contacts' = IF worker[w].matched THEN contacts ELSE contacts + 1
    /\ worker' = [worker EXCEPT ![w] = Waiting]
    /\ UNCHANGED <<booked, events, taken, appointment, ref, serial>>

\* store_booking's contact and save_appointment, which looks for the link once more.
SaveAppointment(w) ==
    LET e == events[worker[w].event]
        item == IF ref[e.id] # 0 THEN ref[e.id] ELSE worker[w].moved
        same == {n \in DOMAIN appointment : appointment[n].time = e.id}
        reused == IF item # 0 THEN item
                  ELSE IF same # {} THEN CHOOSE n \in same : \A m \in same : n <= m ELSE 0
        open == IF ref[e.id] # 0 \/ item = 0 THEN reused = 0 \/ appointment[reused].open
                ELSE worker[w].open
        saved == [open |-> open, time |-> e.id]
    IN
    /\ worker[w].event # 0
    /\ e.kind # "lead"
    /\ contacts' = IF worker[w].moved # 0 \/ worker[w].matched THEN contacts ELSE contacts + 1
    /\ IF Cancels(e)
       THEN /\ appointment' = IF item = 0 THEN appointment
                              ELSE [appointment EXCEPT ![item].open = FALSE]
            /\ UNCHANGED ref
       ELSE /\ appointment' = IF reused = 0 THEN Append(appointment, saved)
                              ELSE [appointment EXCEPT ![reused] = saved]
            /\ ref' = [ref EXCEPT ![e.id] =
                          IF reused = 0 THEN Len(appointment) + 1 ELSE reused]
    /\ worker' = [worker EXCEPT ![w] = Waiting]
    /\ UNCHANGED <<booked, events, taken, serial>>

----------------------------------------------------------------------------
BookingsInit ==
    /\ booked = [now |-> 0, last |-> 0, leads |-> 0]
    /\ events = <<>>
    /\ taken = {}
    /\ worker = [w \in BookingTasks |-> Waiting]
    /\ appointment = <<>>
    /\ ref = [id \in Ids |-> 0]
    /\ contacts = 0
    /\ serial = TRUE

BookingsNext ==
    \/ Book \/ Reschedule \/ CancelBooking
    \/ \E email \in Spellings : Submit(email)
    \/ \E w \in BookingTasks :
          \/ \E k \in DOMAIN events : Take(w, k)
          \/ StoreLead(w) \/ SaveAppointment(w)

BookingsSpec == BookingsInit /\ [][BookingsNext]_bookingVars

----------------------------------------------------------------------------
\* Events handled one after the other, in the order they were sent, leave the person one
\* open appointment, at the time of the booking in force, or none when it was cancelled
\* (store_booking, save_appointment); other orders may leave an earlier one open.
AppointmentAsBooked ==
    serial /\ InHand = {} /\ taken = DOMAIN events =>
        {appointment[n].time : n \in {m \in DOMAIN appointment : appointment[m].open}}
            = {booked.now} \ {0}

\* A person who books and submits forms, writing the address in different ways, is one
\* contact, as long as no two workers look for the contact at once (match_contact).
OneContactEach == serial => contacts <= 1

\* What people book and send in shows as one contact with the booking in force
\* (leads.py, appointments.py).
BookedAsMeant == AppointmentAsBooked /\ OneContactEach
=============================================================================
