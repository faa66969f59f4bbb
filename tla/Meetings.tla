------------------------------ MODULE Meetings -------------------------------
(***************************************************************************)
(* The video meeting of one appointment (crm/meetings.py): staff edit the  *)
(* appointment through a form, each save that matters queues a push, and   *)
(* the worker makes, moves or removes the meeting at the provider of the   *)
(* staff member it is assigned to.  A push reads the appointment and its   *)
(* refs, calls the provider and writes what it learnt, with no lock.       *)
(* Calendars has the pushes to calendars, which work in the same way.      *)
(***************************************************************************)
EXTENDS Naturals, FiniteSets

CONSTANTS
    Hosts,        \* staff who have connected a video service
    Times,        \* titles and times an appointment may have
    Pushers,      \* tasks the workers may have in hand at once
    MaxMeetings   \* bound on the meetings made

ASSUME MeetingsAssumption == MaxMeetings \in Nat /\ "none" \notin Hosts \cup Times

VARIABLES
    item,       \* the appointment
    form,       \* an open page, and the link it shows
    refs,       \* meeting_refs: the meetings the CRM links it to
    held,       \* the meetings there are at the providers: whose, and when
    made,       \* how many were ever made
    queued,     \* a push_meeting waits
    removals,   \* remove_appointment_meeting tasks that wait
    push,       \* each task in hand
    mishap      \* a call failed, or the appointment changed under a push that no other follows

meetVars == <<item, form, refs, held, made, queued, removals, push, mishap>>

Ids == 1..MaxMeetings
Urls == Ids \cup {0, MaxMeetings + 1}   \* meeting_url: one's link, none, one pasted by staff
Pasted == MaxMeetings + 1
Items == [there : BOOLEAN, who : Hosts \cup {"none"}, at : Times \cup {"none"},
          done : BOOLEAN, url : Urls]
Refs == [of : Hosts, id : Ids, print : Times]
NoItem == [there |-> FALSE, who |-> "none", at |-> "none", done |-> FALSE, url |-> 0]
NoForm == [open |-> FALSE, url |-> 0]
NoPush == [step |-> "idle", item |-> NoItem, ref |-> {}, drop |-> {}, got |-> 0]

MeetTypeOK ==
    /\ item \in Items
    /\ form \in [open : BOOLEAN, url : Urls]
    /\ refs \subseteq Refs
    /\ held \subseteq [id : Ids, of : Hosts, at : Times]
    /\ made \in 0..MaxMeetings
    /\ queued \in BOOLEAN /\ mishap \in BOOLEAN
    /\ removals \subseteq Ids
    /\ push \in [Pushers -> [step : {"idle", "begun", "made", "linked"}, item : Items,
                             ref : SUBSET Refs, drop : SUBSET Refs, got : 0..MaxMeetings]]

----------------------------------------------------------------------------
Busy == {p \in Pushers : push[p].step # "idle"}
Wanted(i) == i.there /\ i.who # "none" /\ i.at # "none"

\* Slip: only the new assignee's services are looked at.
PushIfHosted(i) == i.who # "none"

\* appointment_saved
PushOnSave(i) == i.who # "none" \/ refs # {}

Saved(i) ==
    /\ item' = i
    /\ queued' = (queued \/ PushOnSave(i))
    /\ mishap' = (mishap \/ (Busy # {} /\ ~PushOnSave(i)))
    /\ UNCHANGED <<refs, held, made, removals, push>>

Create(who, at) ==
    /\ item = NoItem /\ made = 0 /\ Busy = {}
    /\ Saved([NoItem EXCEPT !.there = TRUE, !.who = who, !.at = at])
    /\ form' = NoForm

OpenForm ==
    /\ item.there /\ ~form.open
    /\ form' = [open |-> TRUE, url |-> item.url]
    /\ UNCHANGED <<item, refs, held, made, queued, removals, push, mishap>>

\* work_update saves every field the page shows, and what staff changed.
SaveForm(who, at, url) ==
    /\ form.open /\ item.there
    /\ url \in {form.url, Pasted}
    /\ Saved([item EXCEPT !.who = who, !.at = at, !.url = url])
    /\ form' = NoForm

Toggle ==
    /\ item.there
    /\ Saved([item EXCEPT !.done = ~@])
    /\ UNCHANGED form

\* appointment_deleted
Delete ==
    /\ item.there
    /\ item' = NoItem
    /\ removals' = removals \cup {r.id : r \in refs}
    /\ refs' = {}
    /\ form' = NoForm
    /\ mishap' = (mishap \/ Busy # {})
    /\ UNCHANGED <<held, made, queued, push>>

----------------------------------------------------------------------------
\* push_meeting: the first ref on the assignee's connection is kept, the others go.
BeginPush(p) ==
    /\ queued /\ push[p] = NoPush
    /\ queued' = FALSE
    /\ IF ~item.there THEN UNCHANGED push
       ELSE LET own == {r \in refs : Wanted(item) /\ r.of = item.who} IN
            \E kept \in IF own = {} THEN {{}} ELSE {{r} : r \in own} :
               push' = [push EXCEPT ![p] = [step |-> "begun", item |-> item, ref |-> kept,
                                            drop |-> refs \ kept, got |-> 0]]
    /\ mishap' = (mishap \/ (item.there /\ Busy # {}))
    /\ UNCHANGED <<item, form, refs, held, made, removals>>

Without(id) == {m \in held : m.id # id}

\* remove_meeting ignores the provider's refusal; the ref goes, and the link is cleared.
DropStale(p, r, ok) ==
    /\ push[p].step = "begun" /\ r \in push[p].drop
    /\ held' = IF ok THEN Without(r.id) ELSE held
    /\ refs' = refs \ {r}
    /\ item' = IF item.there THEN [item EXCEPT !.url = 0] ELSE item
    /\ push' = [push EXCEPT ![p].drop = @ \ {r}, ![p].item.url = 0]
    /\ mishap' = (mishap \/ ~ok)
    /\ UNCHANGED <<form, made, queued, removals>>

\* Slip: a meeting that has been made is never sent again.
CallNeededOnce(p) ==
    /\ Wanted(push[p].item) /\ ~push[p].item.done
    /\ push[p].ref = {} /\ push[p].item.url = 0

\* No finished appointment, no link of staff's own, no meeting as it already is.
CallNeeded(p) ==
    LET i == push[p].item IN
    /\ Wanted(i) /\ ~i.done
    /\ push[p].ref = {} => i.url = 0
    /\ \A r \in push[p].ref : r.print # i.at

EndPush(p) ==
    /\ push[p].step = "begun" /\ push[p].drop = {} /\ ~CallNeeded(p)
    /\ push' = [push EXCEPT ![p] = NoPush]
    /\ UNCHANGED <<item, form, refs, held, made, queued, removals, mishap>>

\* save_meeting moves the meeting, or makes one if there is none or it is gone.
CallProvider(p) ==
    /\ push[p].step = "begun" /\ push[p].drop = {} /\ CallNeeded(p)
    /\ LET i == push[p].item
           old == {r.id : r \in push[p].ref} \cap {m.id : m \in held}
           id == IF old # {} THEN CHOOSE o \in old : TRUE ELSE made + 1
       IN  /\ id \in Ids
           /\ held' = Without(id) \cup {[id |-> id, of |-> i.who, at |-> i.at]}
           /\ made' = IF old # {} THEN made ELSE id
           /\ push' = [push EXCEPT ![p].step = "made", ![p].got = id]
    /\ UNCHANGED <<item, form, refs, queued, removals, mishap>>

\* The provider refuses, or the worker dies, before the call or after it.
PushFails(p) ==
    /\ push[p].step # "idle"
    /\ push' = [push EXCEPT ![p] = NoPush]
    /\ mishap' = TRUE
    /\ UNCHANGED <<item, form, refs, held, made, queued, removals>>

\* refs.link, with the fingerprint of what was read.
LinkMeeting(p) ==
    LET i == push[p].item
        r == [of |-> i.who, id |-> push[p].got, print |-> i.at]
    IN  /\ push[p].step = "made"
        /\ refs' = {s \in refs \ push[p].ref : s.id # r.id} \cup {r}
        /\ push' = [push EXCEPT ![p].step = "linked"]
        /\ UNCHANGED <<item, form, held, made, queued, removals, mishap>>

\* set_link writes the address alone, unless it is the one that was read.
SetLink(p) ==
    /\ push[p].step = "linked"
    /\ item' = IF item.there /\ push[p].got # push[p].item.url
               THEN [item EXCEPT !.url = push[p].got] ELSE item
    /\ push' = [push EXCEPT ![p] = NoPush]
    /\ UNCHANGED <<form, refs, held, made, queued, removals, mishap>>

\* remove_appointment_meeting
Remove(id, ok) ==
    /\ id \in removals
    /\ removals' = removals \ {id}
    /\ held' = IF ok THEN Without(id) ELSE held
    /\ mishap' = (mishap \/ ~ok)
    /\ UNCHANGED <<item, form, refs, made, queued, push>>

\* Someone deletes a meeting at the provider.
Vanish(m) ==
    /\ m \in held
    /\ held' = held \ {m}
    /\ mishap' = TRUE
    /\ UNCHANGED <<item, form, refs, made, queued, removals, push>>

----------------------------------------------------------------------------
MeetInit ==
    /\ item = NoItem /\ form = NoForm
    /\ refs = {} /\ held = {} /\ made = 0
    /\ queued = FALSE /\ removals = {} /\ mishap = FALSE
    /\ push = [p \in Pushers |-> NoPush]

MeetNext ==
    \/ OpenForm \/ Toggle \/ Delete
    \/ \E who \in Hosts \cup {"none"}, at \in Times \cup {"none"} :
          Create(who, at) \/ \E url \in Urls : SaveForm(who, at, url)
    \/ \E p \in Pushers :
          \/ BeginPush(p) \/ EndPush(p) \/ CallProvider(p) \/ PushFails(p)
          \/ LinkMeeting(p) \/ SetLink(p)
          \/ \E r \in Refs, ok \in BOOLEAN : DropStale(p, r, ok)
    \/ \E id \in Ids, ok \in BOOLEAN : Remove(id, ok)
    \/ \E m \in held : Vanish(m)

MeetSpec == MeetInit /\ [][MeetNext]_meetVars

----------------------------------------------------------------------------
\* When no task waits or runs, and there was no mishap, the meetings there are are those
\* the appointment is linked to, at most one, with its host; an unfinished appointment's
\* is at its time (push_meeting, appointment_saved, appointment_deleted).
MeetingMatches ==
    ~queued /\ removals = {} /\ Busy = {} /\ ~mishap =>
        /\ {m.id : m \in held} = {r.id : r \in refs}
        /\ Cardinality(held) <= 1
        /\ \A m \in held :
              /\ Wanted(item) /\ m.of = item.who
              /\ item.done \/ m.at = item.at

\* meetings.py:8 and docs/ARCHITECTURE.md:103, "a link staff pasted is never replaced":
\* a task that read a pasted link leaves it there.
PastedLinkKept ==
    [][\A p \in Pushers :
          push[p].item.url = Pasted /\ item.url = Pasted /\ push'[p] # push[p] =>
              item'.url = Pasted]_meetVars
=============================================================================
