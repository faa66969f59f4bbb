------------------------------- MODULE ApiSync -------------------------------
(***************************************************************************)
(* A system that keeps in step with the CRM over the REST API (crm/api):   *)
(* it asks for what changed since its last poll, page by page              *)
(* (updated_since, limit, offset), while staff and workers change records, *)
(* and posts communications with an ID of its own, again when it had no    *)
(* answer.                                                                 *)
(***************************************************************************)
EXTENDS Naturals, FiniteSets

CONSTANTS
    Rows,        \* records of one list, numbered in the order of their keys
    Savers,      \* transactions that change them
    PageSize,    \* limit
    MaxClock,    \* bound on the time
    MaxVersions, \* bound on the changes of a record
    Posters      \* requests that post the same communication

ASSUME ApiSyncAssumption ==
    /\ Rows \subseteq Nat \ {0} /\ IsFiniteSet(Rows)
    /\ PageSize \in Nat \ {0} /\ {MaxClock, MaxVersions} \subseteq Nat

VARIABLES
    now,
    row,      \* each record: updated_at, and how often what it shows has changed
    saver,    \* each open transaction: the record, and the updated_at it will commit
    poll,     \* the poll under way: since when, and how many it has gone through
    polled,   \* when the last poll that ended began
    mirror,   \* what the other system has of each record
    missed,   \* records that a poll could not see or went past
    poster,   \* each POST of the communication: step, and whether it found one
    posted,   \* communications with the ID
    resent    \* a POST was sent before another had committed

syncVars == <<now, row, saver, poll, polled, mirror, missed, poster, posted, resent>>
rowVars == <<now, row, saver, poll, polled, mirror, missed>>
postVars == <<poster, posted, resent>>

NoSave == [of |-> 0, at |-> 0]
NoPoll == [on |-> FALSE, began |-> 0, offset |-> 0]

SyncTypeOK ==
    /\ now \in 0..MaxClock
    /\ row \in [Rows -> [at : 0..MaxClock, version : 0..MaxVersions]]
    /\ saver \in [Savers -> [of : Rows \cup {0}, at : 0..MaxClock]]
    /\ poll \in [on : BOOLEAN, began : 0..MaxClock, offset : 0..Cardinality(Rows)]
    /\ polled \in 0..MaxClock
    /\ mirror \in [Rows -> 0..MaxVersions]
    /\ missed \subseteq Rows
    /\ poster \in [Posters -> {"new", "not_found", "made", "answered"}]
    /\ posted \in 0..Cardinality(Posters) /\ resent \in BOOLEAN

----------------------------------------------------------------------------
\* Slip: a record that was saved in the very moment of the last poll is left out.
ChangedAfter(rows, r) == rows[r].at > polled

\* since: in the order of updated_at, and of the keys
ChangedSince(rows, r) == rows[r].at >= polled
SortsBefore(rows, q, r) == rows[q].at < rows[r].at \/ (rows[q].at = rows[r].at /\ q < r)
Place(rows, r) == Cardinality({q \in Rows : ChangedSince(rows, q) /\ SortsBefore(rows, q, r)})

----------------------------------------------------------------------------
\* Changes in the CRM

Tick ==
    /\ now < MaxClock
    /\ now' = now + 1
    /\ UNCHANGED <<row, saver, poll, polled, mirror, missed, postVars>>

Versions(r) == row[r].version + Cardinality({s \in Savers : saver[s].of = r})

\* auto_now: the time is taken when the row is saved, and seen when it commits.  Another
\* change of the row waits for that.
Save(s, r) ==
    /\ saver[s] = NoSave /\ \A t \in Savers : saver[t].of # r
    /\ Versions(r) < MaxVersions
    /\ saver' = [saver EXCEPT ![s] = [of |-> r, at |-> now]]
    /\ UNCHANGED <<now, row, poll, polled, mirror, missed, postVars>>

\* A record that was saved before a poll began, and committed behind what the poll has
\* read, is not seen by it nor by the next one; and one that moves to the end from there
\* pulls the next record into a page that is already read.
Commit(s) ==
    LET r == saver[s].of
        after == [row EXCEPT ![r] = [at |-> saver[s].at, version |-> @.version + 1]]
        behind == poll.on /\ saver[s].at < poll.began /\ Place(after, r) < poll.offset
        pulls == poll.on /\ ChangedSince(row, r) /\ Place(row, r) < poll.offset
                    /\ Place(after, r) >= poll.offset
        pulled == {q \in Rows : ChangedSince(row, q) /\ Place(row, q) = poll.offset}
    IN  /\ saver[s] # NoSave
        /\ row' = after
        /\ missed' = missed \cup (IF saver[s].at < polled \/ behind THEN {r} ELSE {})
                            \cup (IF pulls THEN pulled ELSE {})
        /\ saver' = [saver EXCEPT ![s] = NoSave]
        /\ UNCHANGED <<now, poll, polled, mirror, postVars>>

\* What a record shows of others, such as an invoice's payments or a matter's workflow,
\* changes without its updated_at.
ChangeNested(r) ==
    /\ Versions(r) < MaxVersions
    /\ row' = [row EXCEPT ![r].version = @ + 1]
    /\ missed' = missed \cup {r}
    /\ UNCHANGED <<now, saver, poll, polled, mirror, postVars>>

----------------------------------------------------------------------------
\* The poll

\* "Poll with updated_since set to the time of your last poll."
BeginPoll ==
    /\ ~poll.on
    /\ poll' = [on |-> TRUE, began |-> now, offset |-> 0]
    /\ UNCHANGED <<now, row, saver, polled, mirror, missed, postVars>>

\* What the serializers give of a record
Shown(r) == row[r].version

\* paginate: one page, and whether there is a next one.
ReadPage ==
    LET listed == {r \in Rows : ChangedSince(row, r)}
        end == poll.offset + PageSize
        page == {r \in listed : poll.offset <= Place(row, r) /\ Place(row, r) < end}
        more == Cardinality(listed) > end
    IN  /\ poll.on
        /\ mirror' = [r \in Rows |-> IF r \in page THEN Shown(r) ELSE mirror[r]]
        /\ missed' = missed \ page
        /\ poll' = IF more THEN [poll EXCEPT !.offset = end] ELSE NoPoll
        /\ polled' = IF more THEN polled ELSE poll.began
        /\ UNCHANGED <<now, row, saver, postVars>>

----------------------------------------------------------------------------
\* communications: POST with an external_id

\* Slip: the ID is not looked up.
FindNothing(p) ==
    /\ poster[p] = "new"
    /\ poster' = [poster EXCEPT ![p] = "not_found"]
    /\ UNCHANGED <<rowVars, posted, resent>>

FindPosted(p) ==
    /\ poster[p] = "new"
    /\ poster' = [poster EXCEPT ![p] = IF posted > 0 THEN "answered" ELSE "not_found"]
    /\ resent' = (resent \/ \E q \in Posters : poster[q] = "not_found")
    /\ UNCHANGED <<rowVars, posted>>

\* The record is made; no constraint keeps a second one out.
Make(p) ==
    /\ poster[p] = "not_found"
    /\ posted' = posted + 1
    /\ poster' = [poster EXCEPT ![p] = "made"]
    /\ UNCHANGED <<rowVars, resent>>

\* The request is refused, or the process goes away, before anything is stored.
PostFails(p) ==
    /\ poster[p] = "not_found"
    /\ poster' = [poster EXCEPT ![p] = "new"]
    /\ UNCHANGED <<rowVars, posted, resent>>

----------------------------------------------------------------------------
SyncInit ==
    /\ now = 0
    /\ row = [r \in Rows |-> [at |-> 0, version |-> 0]]
    /\ saver = [s \in Savers |-> NoSave]
    /\ poll = NoPoll /\ polled = 0
    /\ mirror = [r \in Rows |-> 0]
    /\ missed = {}
    /\ poster = [p \in Posters |-> "new"] /\ posted = 0 /\ resent = FALSE

PollNext ==
    \/ Tick \/ BeginPoll \/ ReadPage
    \/ \E s \in Savers : Commit(s) \/ \E r \in Rows : Save(s, r)
    \/ \E r \in Rows : ChangeNested(r)

PostNext == \E p \in Posters : FindPosted(p) \/ Make(p) \/ PostFails(p)

SyncNext == PollNext \/ PostNext

SyncSpec == SyncInit /\ [][SyncNext]_syncVars

----------------------------------------------------------------------------
\* After a poll the other system has all that was saved before it began, except for what
\* committed late, was changed through another table, or was pushed from one page to
\* another while the poll went through them.
InStep ==
    ~poll.on => \A r \in Rows \ missed : row[r].at < polled => mirror[r] = row[r].version

\* A communication is posted once, however often it is sent again, unless it is sent again
\* while it is still being stored.
PostedOnce == resent \/ posted <= 1

\* Other systems stay in step, both ways.
InStepBothWays == InStep /\ PostedOnce
=============================================================================
