------------------------------- MODULE Notices -------------------------------
(***************************************************************************)
(* What USCIS sends and says of a case (crm/notices), in two parts.        *)
(*                                                                         *)
(* The readings of one receipt number's case status: a source's results    *)
(* are stored by workers, staff record readings by hand, and a changed     *)
(* status makes a review task, or adds to the one that is still open.  The *)
(* reading checked last is the one in force.                               *)
(*                                                                         *)
(* One notice and the work item its date drives (save_notice, sync_item    *)
(* and delete_notice): saving the notice creates, moves or removes the     *)
(* item, which staff complete, move or delete in Work meanwhile.  A        *)
(* deadline and an appointment are kept the same way.                      *)
(***************************************************************************)
EXTENDS Naturals

CONSTANTS
    Filers,     \* worker tasks that store a source's results
    Titles,     \* the status titles the source gives
    Routine,    \* those that need no review
    MaxReadings \* bound on the readings; their times are 1..MaxReadings

ASSUME CaseStatusAssumption ==
    /\ Filers # {} /\ Titles # {} /\ "no_reading" \notin Titles
    /\ Routine \subseteq Titles
    /\ MaxReadings \in Nat

VARIABLES
    clock,    \* the time of the last result a source gave
    latest,   \* the reading in force: its title and time
    problem,  \* the receipt number is shown as one without an answer
    filer,    \* what each worker is doing: the result, what it read
    reviews,  \* the open review tasks, by the title the last line names
    told,     \* the title that staff last saw, recorded themselves, or were asked to review
    crossed   \* two readings were stored at once, or one out of order

caseVars == <<clock, latest, problem, filer, reviews, told, crossed>>

NoTitle == "no_reading"
Known == Titles \cup {NoTitle}
NoReading == [title |-> NoTitle, at |-> 0]
NoTask == 0
Free == [step |-> "idle", title |-> NoTitle, at |-> 0, previous |-> NoTitle, task |-> NoTask]

CaseTypeOK ==
    /\ clock \in 0..MaxReadings
    /\ latest \in [title : Known, at : 0..MaxReadings]
    /\ problem \in BOOLEAN
    /\ filer \in [Filers -> [step : {"idle", "asked", "read", "looked"}, title : Known,
                             at : 0..MaxReadings, previous : Known, task : 0..MaxReadings]]
    /\ reviews \subseteq 1..MaxReadings
    /\ told \in Known
    /\ crossed \in BOOLEAN

----------------------------------------------------------------------------
\* A source's results

AllFree == \A f \in Filers : filer[f] = Free

\* A source is asked, and answers with a title or with a problem.
AskSource(f, title) ==
    /\ filer[f] = Free
    /\ clock < MaxReadings
    /\ clock' = clock + 1
    /\ filer' = [filer EXCEPT ![f] = [Free EXCEPT !.step = "asked", !.title = title,
                                                  !.at = clock + 1]]
    /\ crossed' = (crossed \/ ~AllFree)
    /\ UNCHANGED <<latest, problem, reviews, told>>

\* The number is on no matter any more, or on several, or storing it fails.
LeaveOut(f) ==
    /\ filer[f].step = "asked"
    /\ filer' = [filer EXCEPT ![f] = Free]
    /\ UNCHANGED <<clock, latest, problem, reviews, told, crossed>>

\* store_problem
StoreProblem(f) ==
    /\ filer[f].step = "asked" /\ filer[f].title = NoTitle
    /\ problem' = TRUE
    /\ filer' = [filer EXCEPT ![f] = Free]
    /\ UNCHANGED <<clock, latest, reviews, told, crossed>>

\* store_reading looks at the reading in force ...
ReadLatest(f) ==
    /\ filer[f].step = "asked" /\ filer[f].title # NoTitle
    /\ filer' = [filer EXCEPT ![f].step = "read", ![f].previous = latest.title]
    /\ UNCHANGED <<clock, latest, problem, reviews, told, crossed>>

\* record_status: the reading checked last is in force, and the number has its answer.
RecordStatus(title, at) ==
    /\ latest' = IF at >= latest.at THEN [title |-> title, at |-> at] ELSE latest
    /\ problem' = FALSE

Changed(f) == filer[f].previous \notin {NoTitle, filer[f].title}
NeedsReview(f) == Changed(f) /\ filer[f].title \notin Routine

\* open_review_task looks for the number's newest open review.
LookForTask(f) ==
    /\ filer[f].step = "read"
    /\ \E task \in reviews \cup {NoTask} :
          /\ \A r \in reviews : r <= task
          /\ filer' = [filer EXCEPT ![f].step = "looked", ![f].task = task]
    /\ UNCHANGED <<clock, latest, problem, reviews, told, crossed>>

\* Slip: only a change after a problem is reviewed.
ReviewRarely(f) == NeedsReview(f) /\ problem

ReviewsChange(f) == NeedsReview(f)

\* ... and stores the reading with its task, a new one or the open one.  Saving the task
\* opens it again if it was completed meanwhile.
StoreReading(f) ==
    /\ filer[f].step = "looked"
    /\ RecordStatus(filer[f].title, filer[f].at)
    /\ reviews' = IF ReviewsChange(f)
                  THEN reviews \cup {IF filer[f].task = NoTask THEN filer[f].at
                                     ELSE filer[f].task}
                  ELSE reviews
    /\ told' = IF ReviewsChange(f) \/ latest = NoReading THEN filer[f].title ELSE told
    /\ crossed' = (crossed \/ filer[f].at < latest.at)
    /\ filer' = [filer EXCEPT ![f] = Free]
    /\ UNCHANGED clock

----------------------------------------------------------------------------
\* Staff

\* status_record: staff say when they looked; no task is made.
RecordByHand(title, at) ==
    /\ at \in 1..clock
    /\ RecordStatus(title, at)
    /\ told' = IF at >= latest.at THEN title ELSE told
    /\ crossed' = (crossed \/ ~AllFree \/ at < latest.at)
    /\ UNCHANGED <<clock, filer, reviews>>

CompleteReview(task) ==
    /\ task \in reviews
    /\ reviews' = reviews \ {task}
    /\ UNCHANGED <<clock, latest, problem, filer, told, crossed>>

----------------------------------------------------------------------------
CaseInit ==
    /\ clock = 0
    /\ latest = NoReading
    /\ problem = FALSE
    /\ filer = [f \in Filers |-> Free]
    /\ reviews = {}
    /\ told = NoTitle
    /\ crossed = FALSE

File(f) ==
    \/ \E title \in Known : AskSource(f, title)
    \/ LeaveOut(f) \/ StoreProblem(f) \/ ReadLatest(f) \/ LookForTask(f) \/ StoreReading(f)

CaseNext ==
    \/ \E f \in Filers : File(f)
    \/ \E title \in Titles, at \in 1..MaxReadings : RecordByHand(title, at)
    \/ \E task \in reviews : CompleteReview(task)

CaseSpec == CaseInit /\ [][CaseNext]_caseVars

----------------------------------------------------------------------------
\* No status that needs a review comes into force in silence: staff recorded it, or were
\* asked to review it, or it was the first one, unless readings were stored at once or out
\* of order (store_reading, request_review and record_status).
NoSilentChange == crossed \/ latest.title \in Routine \cup {told}

\* One receipt number has one open review task, to which later changes are added, unless
\* two readings were stored at once (open_review_task).
OneOpenReview ==
    crossed \/ \A r, s \in reviews : r = s

\* Changes of a case's status are told to staff, in one open review (records.py).
ChangesReviewed == NoSilentChange /\ OneOpenReview

----------------------------------------------------------------------------
\* A notice and its work item

CONSTANTS
    Editors,      \* requests that save or delete the notice
    Dates,        \* the dates a notice can have
    MaxNoticeItems \* bound on the work items that are made

ASSUME NoticesAssumption ==
    /\ Editors # {} /\ Dates # {} /\ "no_date" \notin Dates
    /\ MaxNoticeItems \in Nat

VARIABLES
    notice,  \* the row: stored, its date, and the work item it points to
    items,   \* the work items: stored, completed, their date, and whether staff moved them
    made,    \* how many were made
    editor,  \* the notice as each request read it, with the date it will save
    mixed    \* a request saved a notice that another had saved since it was read

noticeVars == <<notice, items, made, editor, mixed>>

NoDate == "no_date"
AnyDate == Dates \cup {NoDate}
ItemIds == 1..MaxNoticeItems
NoItem == 0
Notice == [stored : BOOLEAN, date : AnyDate, item : ItemIds \cup {NoItem}]
Unsaved == [stored |-> FALSE, date |-> NoDate, item |-> NoItem]
NotThere == [stored |-> FALSE, done |-> FALSE, date |-> NoDate, moved |-> FALSE]
Apart == [on |-> FALSE, seen |-> Unsaved, date |-> NoDate]

NoticesTypeOK ==
    /\ notice \in Notice
    /\ items \in [ItemIds ->
                    [stored : BOOLEAN, done : BOOLEAN, date : AnyDate, moved : BOOLEAN]]
    /\ made \in 0..MaxNoticeItems
    /\ editor \in [Editors -> [on : BOOLEAN, seen : Notice, date : AnyDate]]
    /\ mixed \in BOOLEAN

Open(i) == items[i].stored /\ ~items[i].done

----------------------------------------------------------------------------
\* save_notice

\* The first notice is entered; later it is read with the page that changes it.
ReadNotice(e, date) ==
    /\ ~editor[e].on
    /\ notice.stored \/ \A d \in Editors : ~editor[d].on
    /\ editor' = [editor EXCEPT ![e] = [on |-> TRUE, seen |-> notice, date |-> date]]
    /\ UNCHANGED <<notice, items, made, mixed>>

LeaveNotice(e) ==
    /\ editor[e].on
    /\ editor' = [editor EXCEPT ![e] = Apart]
    /\ UNCHANGED <<notice, items, made, mixed>>

\* Saving fails when the notice was deleted meanwhile, or its item.
CanSave(e) ==
    LET seen == editor[e].seen IN
    /\ editor[e].on
    /\ seen.stored => notice.stored
    /\ seen.item # NoItem => items[seen.item].stored

Saves(e, item, newItems) ==
    /\ notice' = [stored |-> TRUE, date |-> editor[e].date, item |-> item]
    /\ items' = newItems
    /\ mixed' = (mixed \/ editor[e].seen # notice)
    /\ editor' = [editor EXCEPT ![e] = Apart]

\* A notice that has no item yet gets one for its date.
CreateItem(e) ==
    /\ CanSave(e)
    /\ editor[e].date # NoDate /\ editor[e].seen.item = NoItem
    /\ made < MaxNoticeItems
    /\ made' = made + 1
    /\ Saves(e, made + 1, [items EXCEPT ![made + 1] =
            [stored |-> TRUE, done |-> FALSE, date |-> editor[e].date, moved |-> FALSE]])

\* An item that is open moves with the date; a completed one is left as it is.
MoveItem(e) ==
    LET i == editor[e].seen.item IN
    /\ CanSave(e)
    /\ editor[e].date # NoDate /\ i # NoItem
    /\ Saves(e, i, [items EXCEPT ![i] = IF @.done THEN @ ELSE
            [@ EXCEPT !.date = editor[e].date, !.moved = FALSE]])
    /\ UNCHANGED made

\* Slip: the item stays when the date is removed.
LeaveItem(e) ==
    /\ CanSave(e)
    /\ editor[e].date = NoDate
    /\ Saves(e, editor[e].seen.item, items)
    /\ UNCHANGED made

\* Without a date, an open item goes.
RemoveItem(e) ==
    LET i == editor[e].seen.item
        goes == i # NoItem /\ Open(i)
    IN
    /\ CanSave(e)
    /\ editor[e].date = NoDate
    /\ Saves(e, IF goes THEN NoItem ELSE i,
             IF goes THEN [items EXCEPT ![i] = NotThere] ELSE items)
    /\ UNCHANGED made

\* delete_notice, with its item if that is open.
DeleteNotice ==
    /\ notice.stored
    /\ items' = [i \in ItemIds |-> IF i = notice.item /\ Open(i) THEN NotThere ELSE items[i]]
    /\ notice' = Unsaved
    /\ UNCHANGED <<made, editor, mixed>>

----------------------------------------------------------------------------
\* Staff in Work: complete an item, open it again, move it, or delete it, which makes
\* the notice forget it.

SetDone(i, done) ==
    /\ items[i].stored /\ items[i].done # done
    /\ items' = [items EXCEPT ![i].done = done, ![i].moved = @ \/ ~done]
    /\ UNCHANGED <<notice, made, editor, mixed>>

Reschedule(i, date) ==
    /\ Open(i)
    /\ items' = [items EXCEPT ![i].date = date, ![i].moved = TRUE]
    /\ UNCHANGED <<notice, made, editor, mixed>>

DeleteItem(i) ==
    /\ items[i].stored
    /\ items' = [items EXCEPT ![i] = NotThere]
    /\ notice' = IF notice.item = i THEN [notice EXCEPT !.item = NoItem] ELSE notice
    /\ UNCHANGED <<made, editor, mixed>>

----------------------------------------------------------------------------
NoticesInit ==
    /\ notice = Unsaved
    /\ items = [i \in ItemIds |-> NotThere]
    /\ made = 0
    /\ editor = [e \in Editors |-> Apart]
    /\ mixed = FALSE

NoticesNext ==
    \/ \E e \in Editors :
          \/ \E date \in AnyDate : ReadNotice(e, date)
          \/ LeaveNotice(e) \/ CreateItem(e) \/ MoveItem(e) \/ RemoveItem(e)
    \/ DeleteNotice
    \/ \E i \in ItemIds :
          \/ \E done \in BOOLEAN : SetDone(i, done)
          \/ \E date \in Dates : Reschedule(i, date)
          \/ DeleteItem(i)

NoticesSpec == NoticesInit /\ [][NoticesNext]_noticeVars

----------------------------------------------------------------------------
\* A deadline in Work that came from a notice has the notice's date, unless staff moved
\* it or opened it again, and none is left when the date or the notice is gone, unless
\* two requests saved the notice at once (sync_item and delete_notice).
DeadlineFollowsNotice ==
    mixed \/ \A i \in ItemIds : Open(i) /\ ~items[i].moved =>
        notice.stored /\ notice.item = i /\ notice.date = items[i].date
=============================================================================
