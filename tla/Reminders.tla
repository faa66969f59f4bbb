------------------------------- MODULE Reminders -------------------------------
(***************************************************************************)
(* Emails that remind a client of a payment plan's installments: the       *)
(* worker's ticks look for due installments, claim each and queue a task   *)
(* for it (queue_due in crm/billing/reminders.py), and the task looks      *)
(* again, and sends the email or gives the claim back (send_reminder, with *)
(* send_system_email in crm/comms/system_email.py).  Payments, refunds and *)
(* staff change the plan at any time.                                      *)
(***************************************************************************)
EXTENDS Naturals, FiniteSets

CONSTANTS
    Tickers,       \* worker processes whose ticks look for due reminders
    Installments,  \* how many installments the plan has
    DaysBefore,    \* reminder_days_before
    MaxDay         \* how many days go by

ASSUME RemindersAssumption ==
    Installments \in Nat \ {0} /\ DaysBefore \in Nat /\ MaxDay \in Nat \ {0}

VARIABLES
    day,      \* today
    plan,     \* the plan: canceled or not, and whether its email reminders are on
    paid,     \* how many installments what was paid covers, in their order
    claimed,  \* installments whose reminder_emailed_at is set
    problem,  \* of these, the ones whose reminder_email_error says why none was sent
    tick,     \* each worker's tick: the installments it found due
    task,     \* each installment's task: none, queued, or found still due
    mails,    \* how often each installment was emailed
    late,     \* ghost: installments paid, or out of a plan in force, after their task looked
    cutOff    \* ghost: installments whose claim or email a stopped process left alone

remindVars == <<day, plan, paid, claimed, problem, tick, task, mails, late, cutOff>>

----------------------------------------------------------------------------
All == 1..Installments

RemindTypeOK ==
    /\ day \in 1..MaxDay
    /\ plan \in [canceled : BOOLEAN, emails : BOOLEAN]
    /\ paid \in 0..Installments
    /\ claimed \subseteq All /\ problem \subseteq All
    /\ tick \in [Tickers -> SUBSET All]
    /\ task \in [All -> {"none", "queued", "due"}]
    /\ mails \in [All -> 0..2]
    /\ late \subseteq All /\ cutOff \subseteq All

DueDate(i) == i + 1
ReminderMoment(i) == IF DueDate(i) > DaysBefore THEN DueDate(i) - DaysBefore ELSE 1

InForce(status, covered) == ~status.canceled /\ covered < Installments
StillDue(i, status, covered) == InForce(status, covered) /\ i > covered

----------------------------------------------------------------------------
(* The plan. *)

NextDay ==
    /\ day < MaxDay
    /\ day' = day + 1
    /\ UNCHANGED <<plan, paid, claimed, problem, tick, task, mails, late, cutOff>>

Becomes(status, covered) ==
    /\ plan' = status /\ paid' = covered
    /\ late' = late \cup {i \in All : task[i] = "due" /\ ~StillDue(i, status, covered)}
    /\ UNCHANGED <<day, claimed, problem, tick, task, mails, cutOff>>

\* A payment or a refund, with what sync_plan makes of it.
Pay == \E covered \in 0..Installments \ {paid} : Becomes(plan, covered)

CancelPlan == ~plan.canceled /\ Becomes([plan EXCEPT !.canceled = TRUE], paid)

\* set_email_reminders, for a plan in force.
SwitchEmails ==
    /\ InForce(plan, paid)
    /\ Becomes([plan EXCEPT !.emails = ~@], paid)

----------------------------------------------------------------------------
(* The worker. *)

\* queue_due's candidates, and what its schedule says is paid; the worker reads them all
\* before it claims one.
FoundDue ==
    {i \in All : /\ StillDue(i, plan, paid) /\ plan.emails
                 /\ i \notin claimed
                 /\ ReminderMoment(i) <= day /\ day <= DueDate(i)}

LookForDue(w) ==
    /\ tick[w] = {} /\ FoundDue # {}
    /\ tick' = [tick EXCEPT ![w] = FoundDue]
    /\ UNCHANGED <<day, plan, paid, claimed, problem, task, mails, late, cutOff>>

\* Slip: the claim is an update that does not look whether another worker claimed it.
ClaimAny(w, i) ==
    /\ i \in tick[w]
    /\ tick' = [tick EXCEPT ![w] = @ \ {i}]
    /\ claimed' = claimed \cup {i}
    /\ task' = [task EXCEPT ![i] = "queued"]
    /\ UNCHANGED <<day, plan, paid, problem, mails, late, cutOff>>

\* One conditional update, and the task once it committed.
Claim(w, i) ==
    /\ i \in tick[w]
    /\ tick' = [tick EXCEPT ![w] = @ \ {i}]
    /\ IF i \in claimed THEN UNCHANGED <<claimed, task>>
       ELSE /\ claimed' = claimed \cup {i}
            /\ task' = [task EXCEPT ![i] = "queued"]
    /\ UNCHANGED <<day, plan, paid, problem, mails, late, cutOff>>

\* send_reminder: what changed since it was claimed gives the claim back.  The due date is
\* not looked at again.
LookAgain(i) ==
    /\ task[i] = "queued"
    /\ IF StillDue(i, plan, paid) /\ plan.emails
       THEN /\ task' = [task EXCEPT ![i] = "due"]
            /\ UNCHANGED claimed
       ELSE /\ task' = [task EXCEPT ![i] = "none"]
            /\ claimed' = claimed \ {i}
    /\ late' = late \ {i}
    /\ UNCHANGED <<day, plan, paid, problem, tick, mails, cutOff>>

\* send_system_email, and the contact's log.
SendEmail(i) ==
    /\ task[i] = "due"
    /\ mails' = [mails EXCEPT ![i] = IF @ = 2 THEN 2 ELSE @ + 1]
    /\ task' = [task EXCEPT ![i] = "none"]
    /\ UNCHANGED <<day, plan, paid, claimed, problem, tick, late, cutOff>>

\* No sender, no address, preview mode, blocked or failed: not_sent_reason is kept, and
\* noted for staff.
NoteNotSent(i) ==
    /\ task[i] = "due"
    /\ problem' = problem \cup {i}
    /\ task' = [task EXCEPT ![i] = "none"]
    /\ UNCHANGED <<day, plan, paid, claimed, tick, mails, late, cutOff>>

\* The worker stops in its tick, or with a task that was queued or is under way.
StopTick(w) ==
    /\ tick[w] # {}
    /\ tick' = [tick EXCEPT ![w] = {}]
    /\ UNCHANGED <<day, plan, paid, claimed, problem, task, mails, late, cutOff>>

StopTask(i) ==
    /\ task[i] # "none"
    /\ task' = [task EXCEPT ![i] = "none"]
    /\ cutOff' = cutOff \cup {i}
    /\ \/ UNCHANGED mails
       \/ task[i] = "due" /\ mails' = [mails EXCEPT ![i] = IF @ = 2 THEN 2 ELSE @ + 1]
    /\ UNCHANGED <<day, plan, paid, claimed, problem, tick, late>>

----------------------------------------------------------------------------
RemindInit ==
    /\ day = 1 /\ plan = [canceled |-> FALSE, emails |-> TRUE] /\ paid = 0
    /\ claimed = {} /\ problem = {}
    /\ tick = [w \in Tickers |-> {}] /\ task = [i \in All |-> "none"]
    /\ mails = [i \in All |-> 0]
    /\ late = {} /\ cutOff = {}

RemindNext ==
    \/ NextDay \/ Pay \/ CancelPlan \/ SwitchEmails
    \/ \E w \in Tickers :
          LookForDue(w) \/ StopTick(w) \/ \E i \in All : Claim(w, i)
    \/ \E i \in All : LookAgain(i) \/ SendEmail(i) \/ NoteNotSent(i) \/ StopTask(i)

RemindSpec == RemindInit /\ [][RemindNext]_remindVars

----------------------------------------------------------------------------
\* No installment is emailed twice, by however many ticks and however often the plan is
\* changed and changed back (the claim in queue_due).
EmailedOnce == \A i \in All : mails[i] <= 1

\* What is shown as emailed was emailed, or says why not, or its task is still to come,
\* and what was emailed is shown so; a stopped worker is the exception.
ShownAsSent ==
    \A i \in All :
        /\ i \in claimed => mails[i] = 1 \/ i \in problem \/ task[i] # "none" \/ i \in cutOff
        /\ mails[i] > 0 \/ task[i] # "none" => i \in claimed

\* An email in hand is for an installment still due in a plan in force, unless that
\* changed after its task looked.
DueWhenSent == \A i \in All : task[i] = "due" => StillDue(i, plan, paid) \/ i \in late

\* Clients are reminded once, of what is due, and staff see it (reminders.py).
RemindersInOrder == EmailedOnce /\ ShownAsSent /\ DueWhenSent
=============================================================================
