---------------------------- MODULE Announcements ----------------------------
(***************************************************************************)
(* What the CRM tells others when a record is saved: the signals turn a    *)
(* save into events for automation tools (crm/events/signals.py,           *)
(* services.py) and into a notification for its new assignee               *)
(* (crm/notifications/services.py).  Both compare the saved copy with what *)
(* it held when it was loaded.  One record is modelled, of any sort that   *)
(* has such signals; EventDelivery says what becomes of an announced event.  *)
(***************************************************************************)
EXTENDS Naturals, FiniteSets, SequencesExt

CONSTANTS
    Colleagues,      \* members of staff
    NoColleague,     \* no assignee, or a save that is nobody's request
    RecordRequests,  \* requests and tasks under way
    MaxRecordSaves   \* bound on the saves of the record

ASSUME AnnouncementsAssumption == NoColleague \notin Colleagues /\ MaxRecordSaves \in Nat \ {0}

VARIABLES
    sort,      \* what the record is
    record,    \* its row: whether it is there, version, tracked value, assignee
    signedUp,  \* staff whose accounts are active
    teller,    \* each request: its copy, and what it has still to do
    announced, \* the deliveries made
    bell,      \* the notifications
    happened   \* what really happened: changes, gifts, saves made blind, saves cut short

tellVars == <<sort, record, signedUp, teller, announced, bell, happened>>

Sorts == {"contact", "matter", "work_item", "invoice"}
Kinds == {"created", "updated", "status_changed", "completed", "issued"}
RecordSaves == 1..MaxRecordSaves
Assignees == Colleagues \cup {NoColleague}
\* The tracked field: a matter's status, a work item done, an invoice issued.
Tracked == {0, 1}
Announcement == [kind : Kinds, at : RecordSaves, from : Tracked, to : Tracked]
Gift == [to : Colleagues, at : RecordSaves]

NoRecord == [there |-> FALSE, v |-> 0, value |-> 0, to |-> NoColleague]
NoFacts == [due |-> {}, gifts |-> {}, blind |-> {}, cut |-> {}]
NoSaver == [step |-> "idle", who |-> NoColleague, atomic |-> FALSE, leaver |-> NoColleague,
            seen |-> 0, new |-> FALSE, value |-> 0, to |-> NoColleague, before |-> 0,
            loaded |-> NoColleague, pending |-> {}, hooks |-> <<>>, within |-> {}, after |-> {},
            draft |-> NoRecord, truth |-> NoFacts]

AnnouncementsTypeOK ==
    /\ sort \in Sorts
    /\ record \in [there : BOOLEAN, v : 0..MaxRecordSaves, value : Tracked, to : Assignees]
    /\ signedUp \subseteq Colleagues
    /\ \A s \in RecordRequests :
          /\ teller[s].step \in {"idle", "open", "saved", "hooks"}
          /\ teller[s].who \in Assignees /\ teller[s].leaver \in Assignees
          /\ teller[s].pending \subseteq Kinds
          /\ teller[s].within \cup teller[s].after \subseteq Gift
          /\ \A k \in DOMAIN teller[s].hooks : teller[s].hooks[k] \in Announcement
    /\ announced \subseteq [what : Announcement, holds : RecordSaves]
    /\ bell \subseteq Gift
    /\ happened.due \subseteq Announcement /\ happened.gifts \subseteq Gift
    /\ happened.blind \cup happened.cut \subseteq RecordSaves

----------------------------------------------------------------------------
\* The signals

\* emit: an event is announced once in a transaction, and a change of what is new is not sent.
Merged(pending, kind) ==
    kind \in pending \/ (kind = "updated" /\ "created" \in pending)

Emit(pending, kind, is) == IF is /\ ~Merged(pending, kind) THEN <<kind>> ELSE <<>>

\* The events of a save, in the order they are emitted.
EventsOf(pending, created, before, after) ==
    LET saved == Emit(pending, "created", created) \o Emit(pending, "updated", ~created)
    IN  CASE sort = "contact" -> saved
          [] sort = "matter" ->
                saved \o Emit(pending, "status_changed", ~created /\ before # after)
          [] sort = "work_item" ->
                Emit(pending, "created", created)
                \o Emit(pending, "completed", after = 1 /\ (created \/ before = 0))
          [] sort = "invoice" -> Emit(pending, "issued", before = 0 /\ after = 1)

\* assignment_saved: somebody else has given the record to an active person, by hand.
Tells(s, before, to) ==
    /\ teller[s].leaver = NoColleague
    /\ to # NoColleague /\ to # before
    /\ teller[s].who # NoColleague /\ teller[s].who # to
    /\ to \in signedUp

----------------------------------------------------------------------------
\* Opening and saving the record

\* API requests and services run in a transaction of their own, pages do not.
OpenRecord(s, who, atomic) ==
    /\ teller[s].step = "idle" /\ who \in signedUp \cup {NoColleague}
    /\ record.there
    /\ teller' = [teller EXCEPT ![s] =
          [NoSaver EXCEPT !.step = "open", !.who = who, !.atomic = atomic, !.seen = record.v,
                          !.value = record.value, !.to = record.to,
                          !.before = record.value, !.loaded = record.to]]
    /\ UNCHANGED <<sort, record, signedUp, announced, bell, happened>>

NewRecord(s, who, atomic) ==
    /\ teller[s].step = "idle" /\ who \in signedUp \cup {NoColleague}
    /\ ~record.there /\ \A q \in RecordRequests : teller[q].step = "idle"
    /\ teller' = [teller EXCEPT ![s] =
          [NoSaver EXCEPT !.step = "open", !.new = TRUE, !.who = who, !.atomic = atomic]]
    /\ UNCHANGED <<sort, record, signedUp, announced, bell, happened>>

\* deactivate looks for what a leaver is responsible for, in its transaction.
LookForWork(s, who, leaver) ==
    /\ teller[s].step = "idle"
    /\ {who, leaver} \subseteq signedUp /\ who # leaver
    /\ record.there /\ record.to = leaver
    /\ teller' = [teller EXCEPT ![s] =
          [NoSaver EXCEPT !.step = "open", !.who = who, !.atomic = TRUE, !.leaver = leaver,
                          !.seen = record.v, !.value = record.value, !.to = record.to,
                          !.before = record.value, !.loaded = record.to]]
    /\ UNCHANGED <<sort, record, signedUp, announced, bell, happened>>

\* The row is not held by a transaction that has saved it.
RecordFree(s) == \A q \in RecordRequests \ {s} : teller[q].step # "saved"

\* What a save may change: a hand-over the assignee, an invoice never back to a draft; a
\* contact has no tracked field and an invoice no assignee.
MayBecome(s, fields, value, to) ==
    /\ fields = "value" => to = teller[s].to
    /\ fields = "assignee" => value = teller[s].value
    /\ teller[s].new => fields = "all"
    /\ teller[s].leaver # NoColleague =>
          fields = "assignee" /\ to \in signedUp \cup {NoColleague} /\ to # teller[s].leaver
    /\ sort = "contact" => value = 0
    /\ sort = "invoice" =>
          to = NoColleague /\ value >= teller[s].value /\ (teller[s].new => value = 0)

\* The row a save leaves: all of the copy, or the fields it names.
Written(fields, value, to) ==
    [there |-> TRUE, v |-> record.v + 1,
     value |-> IF fields # "assignee" THEN value ELSE record.value,
     to |-> IF fields # "value" THEN to ELSE record.to]

\* What an event says: of a change of status, from what to what.
Says(kind, at, from, to) ==
    [kind |-> kind, at |-> at, from |-> IF kind = "status_changed" THEN from ELSE 0,
     to |-> IF kind = "status_changed" THEN to ELSE 0]

\* What is to be sent once the save is committed.
Hooks(kinds, at, from, to) == [k \in DOMAIN kinds |-> Says(kinds[k], at, from, to)]

\* The saver has not seen what the row holds.
Blind(s) == teller[s].seen # record.v

\* What a save really changes: the events it should lead to, the gift it makes, and
\* whether its saver had not seen the last one.
Happened(s, row) ==
    LET created == ~record.there
        turned == ~created /\ ~Blind(s) /\ record.value # row.value
        kinds == {kind \in Kinds :
                    \/ kind = "created" /\ created /\ sort # "invoice"
                    \/ kind = "updated" /\ ~created /\ sort \in {"contact", "matter"}
                    \/ kind = "status_changed" /\ turned /\ sort = "matter"
                    \/ kind = "issued" /\ turned /\ sort = "invoice"
                    \/ kind = "completed" /\ (turned \/ created)
                       /\ sort = "work_item" /\ row.value = 1}
        given == /\ row.to \notin {NoColleague, teller[s].who} /\ teller[s].who # NoColleague
                 /\ row.to \in signedUp
                 /\ created \/ (~Blind(s) /\ row.to # record.to)
    IN  [due |-> {Says(kind, row.v, record.value, row.value) : kind \in kinds},
         gifts |-> IF given THEN {[to |-> row.to, at |-> row.v]} ELSE {},
         blind |-> IF Blind(s) THEN {row.v} ELSE {}, cut |-> {}]

Joined(known, new) ==
    [due |-> known.due \cup new.due, gifts |-> known.gifts \cup new.gifts,
     blind |-> known.blind \cup new.blind, cut |-> known.cut \cup new.cut]

\* The copy is saved; its signals remember what it holds now.
SaveRecord(s, fields, value, to) ==
    LET copy == teller[s]
        row == Written(fields, value, to)
        created == copy.new
        kinds == EventsOf(copy.pending, created, copy.before, value)
        told == IF Tells(s, IF created THEN NoColleague ELSE copy.loaded, to)
                THEN {[to |-> to, at |-> row.v]} ELSE {}
        after == [copy EXCEPT
                    !.seen = IF Blind(s) THEN @ ELSE row.v, !.new = FALSE,
                    !.value = value, !.to = to, !.before = value, !.loaded = to,
                    !.pending = @ \cup ToSet(kinds),
                    !.hooks = Hooks(kinds, row.v, copy.before, value)]
    IN  /\ copy.step = "open"
        /\ RecordFree(s) /\ row.v \in RecordSaves
        /\ MayBecome(s, fields, value, to)
        /\ IF copy.atomic
           THEN /\ teller' = [teller EXCEPT ![s] =
                      [after EXCEPT !.step = "saved", !.within = told, !.draft = row,
                                    !.truth = Happened(s, row)]]
                /\ UNCHANGED <<record, happened>>
           ELSE /\ teller' = [teller EXCEPT ![s] =
                      [after EXCEPT !.step = "hooks", !.after = told]]
                /\ record' = row
                /\ happened' = Joined(happened, Happened(s, row))
        /\ UNCHANGED <<sort, signedUp, announced, bell>>

\* Something else of the same copy is saved in the same transaction.
SaveRecordAgain(s) ==
    LET copy == teller[s]
        kinds == EventsOf(copy.pending, FALSE, copy.before, copy.value)
    IN  /\ copy.step = "saved"
        /\ teller' = [teller EXCEPT
              ![s].pending = @ \cup ToSet(kinds),
              ![s].hooks = @ \o Hooks(kinds, copy.draft.v, copy.before, copy.value)]
        /\ UNCHANGED <<sort, record, signedUp, announced, bell, happened>>

CommitRecord(s) ==
    LET copy == teller[s]
        \* deactivate then tells the successor of all that was handed over.
        handed == copy.leaver # NoColleague /\ copy.draft.to \notin {NoColleague, copy.who}
    IN  /\ copy.step = "saved"
        /\ record' = copy.draft
        /\ bell' = bell \cup copy.within
        /\ signedUp' = signedUp \ {copy.leaver}
        /\ happened' = Joined(happened, copy.truth)
        /\ teller' = [teller EXCEPT
              ![s].step = "hooks", ![s].draft = NoRecord, ![s].truth = NoFacts,
              ![s].after = IF handed THEN {[to |-> copy.draft.to, at |-> copy.draft.v]} ELSE {}]
        /\ UNCHANGED <<sort, announced>>

\* The transaction is rolled back, or the page is left without a save.
LeaveRecord(s) ==
    /\ teller[s].step \in {"open", "saved"}
    /\ teller' = [teller EXCEPT ![s] = NoSaver]
    /\ UNCHANGED <<sort, record, signedUp, announced, bell, happened>>

----------------------------------------------------------------------------
\* After the commit

\* Slip: what a hook has sent stays marked on the copy.
MarkStays(s) ==
    /\ teller[s].step = "hooks" /\ teller[s].hooks # <<>>
    /\ announced' = announced \cup {[what |-> Head(teller[s].hooks), holds |-> record.v]}
    /\ teller' = [teller EXCEPT ![s].hooks = Tail(@)]
    /\ UNCHANGED <<sort, record, signedUp, bell, happened>>

\* queue_deliveries: the event is made from the row as it is now.
RunHook(s) ==
    /\ teller[s].step = "hooks" /\ teller[s].hooks # <<>>
    /\ announced' = announced \cup {[what |-> Head(teller[s].hooks), holds |-> record.v]}
    /\ teller' = [teller EXCEPT
          ![s].hooks = Tail(@), ![s].pending = @ \ {Head(teller[s].hooks).kind}]
    /\ UNCHANGED <<sort, record, signedUp, bell, happened>>

\* notify, outside a transaction.  A page may then save its copy again.
TellColleague(s) ==
    LET copy == teller[s] IN
    /\ copy.step = "hooks" /\ copy.hooks = <<>>
    /\ bell' = bell \cup copy.after
    /\ teller' = [teller EXCEPT ![s] =
          IF copy.atomic THEN NoSaver ELSE [copy EXCEPT !.step = "open", !.after = {}]]
    /\ UNCHANGED <<sort, record, signedUp, announced, happened>>

\* The process goes away between the commit and what follows it.
CutShort(s) ==
    /\ teller[s].step = "hooks"
    /\ happened' = [happened EXCEPT !.cut =
          @ \cup {h.at : h \in ToSet(teller[s].hooks)} \cup {n.at : n \in teller[s].after}]
    /\ teller' = [teller EXCEPT ![s] = NoSaver]
    /\ UNCHANGED <<sort, record, signedUp, announced, bell>>

----------------------------------------------------------------------------
AnnouncementsInit ==
    /\ sort \in Sorts
    /\ \/ record = NoRecord
       \/ \E to \in Assignees : record = [NoRecord EXCEPT !.there = TRUE, !.to = to]
    /\ signedUp = Colleagues
    /\ teller = [s \in RecordRequests |-> NoSaver]
    /\ announced = {} /\ bell = {}
    /\ happened = NoFacts

AfterSave(s) ==
    \/ SaveRecordAgain(s) \/ CommitRecord(s) \/ LeaveRecord(s)
    \/ RunHook(s) \/ TellColleague(s) \/ CutShort(s)

\* Events do not depend on people, nor notifications on the tracked field: the record is
\* followed for the one or for the other.
EventsNext ==
    \E s \in RecordRequests :
        \/ \E atomic \in BOOLEAN :
              OpenRecord(s, NoColleague, atomic) \/ NewRecord(s, NoColleague, atomic)
        \/ \E fields \in {"all", "value", "assignee"}, value \in Tracked :
              SaveRecord(s, fields, value, NoColleague)
        \/ AfterSave(s)

GiftsNext ==
    \E s \in RecordRequests :
        \/ \E who \in Assignees, atomic \in BOOLEAN :
              OpenRecord(s, who, atomic) \/ NewRecord(s, who, atomic)
        \/ \E who, leaver \in Colleagues : LookForWork(s, who, leaver)
        \/ \E fields \in {"all", "value", "assignee"}, to \in Assignees :
              SaveRecord(s, fields, 0, to)
        \/ AfterSave(s)

AnnouncementsSpec ==
    AnnouncementsInit /\ [][EventsNext \/ GiftsNext]_tellVars

----------------------------------------------------------------------------
\* Every committed change is announced, with what it changed and from a record no older
\* than it, unless the process went away after the commit; and no other is, except by a
\* saver that had not seen the last change (emit and the signals' memory of a copy, against
\* rollbacks, repeated saves of one copy, and savers side by side).
EventsTold ==
    /\ \A a \in happened.due :
          \/ a.at \in happened.cut
          \/ \E d \in announced : d.what = a /\ d.holds >= a.at
          \/ \E s \in RecordRequests : a \in ToSet(teller[s].hooks)
    /\ \A d \in announced : d.what \in happened.due \/ d.what.at \in happened.blind

\* Who is given the record by somebody else, or by a hand-over, is told of it, unless the
\* process went away, and nobody else is, except by a saver that had not seen who has it
\* (assignment_saved, notify and deactivate).
GiftsTold ==
    /\ \A g \in happened.gifts :
          \/ g.at \in happened.cut
          \/ g \in bell
          \/ \E s \in RecordRequests : g \in teller[s].after
    /\ \A n \in bell : n \in happened.gifts \/ n.at \in happened.blind
=============================================================================
