-------------------------------- MODULE Pulls --------------------------------
(***************************************************************************)
(* How the connectors read what is new at a provider, one sync after the   *)
(* other, and what they remember in the sync's cursor.  Items (messages,   *)
(* events, calls, payments) are numbered in the order they begin; each     *)
(* discipline of reading is one of                                         *)
(*   history  Gmail: a history ID, or the recent mail when it is too old   *)
(*   delta    Microsoft Graph, Google Calendar: a link or token, given out *)
(*            with the last page only                                      *)
(*   uid      IMAP: the last UID, until the folder's UIDs are renumbered   *)
(*   calls    Twilio, Dialpad: the start of the latest call that was read; *)
(*            a call is listed when it has ended                           *)
(*   events   LawPay: the time of the latest event; the first sync reads   *)
(*            nothing                                                      *)
(***************************************************************************)
EXTENDS Naturals, FiniteSets

CONSTANTS
    Limit,    \* the most items one sync reads (MAIL_LIMIT, DELTA_LIMIT, CALL_LIMIT ...)
    Overlap,  \* how far calls and events are read again (CALL_OVERLAP, POLL_OVERLAP)
    Window,   \* how far back mail is read when the cursor is of no use (RESYNC_DAYS)
    MaxItems  \* bound on the items at the provider

ASSUME PullsAssumption ==
    /\ Limit \in Nat \ {0}
    /\ Overlap \in Nat /\ Window \in Nat /\ MaxItems \in Nat

VARIABLES
    discipline, \* how the connector reads
    begun,      \* how many items there are
    listed,     \* those the provider lists
    gone,       \* the items before the first UID of a folder that was made again
    cursor,     \* whether there is one, the provider takes it, and how far it reaches
    reading,    \* the sync under way: the positions it read, and what was listed
    pulled,     \* the items that were read and stored
    due,        \* what was listed when the last sync that ended began
    excused     \* items that the discipline gives up, a limit reached, a place lost

pullVars == <<discipline, begun, listed, gone, cursor, reading, pulled, due, excused>>

Disciplines == {"history", "delta", "uid", "calls", "events"}
Items == 1..MaxItems
NotReading == [step |-> "rest", mark |-> 0, due |-> {}, found |-> {}, newest |-> 0]

PullsTypeOK ==
    /\ discipline \in Disciplines
    /\ begun \in 0..MaxItems
    /\ listed \subseteq 1..begun
    /\ gone \in 0..begun
    /\ cursor \in [is : {"none", "taken", "refused"}, at : 0..MaxItems]
    /\ reading \in [step : {"rest", "begun", "listed"}, mark : 0..MaxItems, due : SUBSET Items,
                    found : SUBSET Items, newest : 0..MaxItems]
    /\ pulled \subseteq listed
    /\ due \subseteq listed
    /\ excused \in [items : SUBSET Items, limit : BOOLEAN, place : BOOLEAN]

Greatest(S, least) == IF S = {} THEN least ELSE CHOOSE i \in S : \A j \in S : j <= i
Oldest(S, n) == {i \in S : Cardinality({j \in S : j < i}) < n}
Newest(S, n) == {i \in S : Cardinality({j \in S : j > i}) < n}

----------------------------------------------------------------------------
\* The provider

EndsLater == discipline = "calls"

ItemBegins ==
    /\ begun < MaxItems
    /\ begun' = begun + 1
    /\ listed' = IF EndsLater THEN listed ELSE listed \cup {begun + 1}
    /\ UNCHANGED <<discipline, gone, cursor, reading, pulled, due, excused>>

\* A call ends; it was too long when others have begun more than the overlap later.
CallEnds(i) ==
    /\ EndsLater
    /\ i \in (1..begun) \ listed
    /\ listed' = listed \cup {i}
    /\ excused' = [excused EXCEPT !.items = IF i + Overlap < begun THEN @ \cup {i} ELSE @]
    /\ UNCHANGED <<discipline, begun, gone, cursor, reading, pulled, due>>

\* The history is too old, the link has expired, or the folder was made again: it has
\* another UIDVALIDITY, and UIDs that begin with 1 after the messages that are gone.
ProviderForgets(before) ==
    /\ discipline \in {"history", "delta", "uid"}
    /\ cursor.is = "taken"
    /\ reading = NotReading
    /\ cursor' = [cursor EXCEPT !.is = "refused"]
    /\ gone' = IF discipline = "uid" THEN before ELSE gone
    /\ UNCHANGED <<discipline, begun, listed, reading, pulled, due, excused>>

----------------------------------------------------------------------------
\* What a sync looks for

After(p) == {i \in listed : i > p}
Recent == {i \in listed : i + Window > begun}
SinceOverlap == {i \in listed : i + Overlap >= cursor.at}

\* The sync goes on from its cursor, which the provider takes.
GoesOn == cursor.is = "taken" /\ (discipline = "uid" => cursor.at # 0)

\* Gmail: what its history has after the ID, or the recent messages.
HistoryFound ==
    CASE cursor.is = "taken" -> After(cursor.at)
      [] cursor.is = "refused" -> Recent
      [] OTHER -> listed

\* Graph and Google Calendar: what changed since the link, or everything again.
DeltaFound == IF cursor.is = "taken" THEN After(cursor.at) ELSE listed

\* IMAP: higher UIDs than the last, or the recent messages of the folder as it is now.
UidFound ==
    CASE GoesOn -> After(cursor.at + gone)
      [] cursor.is = "none" -> listed
      [] OTHER -> {i \in Recent : i > gone}

CallsFound == IF cursor.is = "none" THEN listed ELSE SinceOverlap
EventsFound == IF cursor.is = "none" THEN {} ELSE SinceOverlap

Found ==
    CASE discipline = "history" -> HistoryFound
      [] discipline = "delta" -> DeltaFound
      [] discipline = "uid" -> UidFound
      [] discipline = "calls" -> CallsFound
      [] discipline = "events" -> EventsFound

\* Gmail's history and the delta queries list the oldest first, the others the newest.
Batch ==
    IF discipline = "delta" \/ (discipline = "history" /\ cursor.is = "taken")
    THEN Oldest(reading.found, Limit)
    ELSE Newest(reading.found, Limit)

\* How far the next sync goes on from
At(i) == [is |-> "taken", at |-> i]

\* Slip: the mailbox's position is the one it has when its messages have been read.
HistoryPositionWhenDone == At(begun)

HistoryPosition == At(IF cursor.is = "taken" THEN reading.newest ELSE reading.mark)
DeltaPosition == IF Cardinality(reading.found) > Limit THEN cursor ELSE At(reading.newest)
UidPosition == At(Greatest({i - gone : i \in Batch}, cursor.at))
CallsPosition == At(Greatest(Batch, cursor.at))
EventsPosition == IF cursor.is = "none" THEN At(reading.newest) ELSE CallsPosition

Position ==
    CASE discipline = "history" -> HistoryPosition
      [] discipline = "delta" -> DeltaPosition
      [] discipline = "uid" -> UidPosition
      [] discipline = "calls" -> CallsPosition
      [] discipline = "events" -> EventsPosition

----------------------------------------------------------------------------
\* One sync: the mailbox's position is read first, then what it lists

BeginPull ==
    /\ reading = NotReading
    /\ reading' = [NotReading EXCEPT !.step = "begun", !.mark = begun, !.due = listed]
    /\ UNCHANGED <<discipline, begun, listed, gone, cursor, pulled, due, excused>>

\* Items that are not looked for because they are too old, or gone.
ListItems ==
    /\ reading.step = "begun"
    /\ reading' = [reading EXCEPT !.step = "listed", !.found = Found, !.newest = begun]
    /\ excused' = [excused EXCEPT
            !.items = IF GoesOn THEN @ ELSE @ \cup (listed \ Found),
            !.limit = @ \/ Cardinality(Found) > Limit,
            !.place = @ \/ (discipline = "uid" /\ cursor.at # 0 /\ ~GoesOn /\ Found = {})]
    /\ UNCHANGED <<discipline, begun, listed, gone, cursor, pulled, due>>

EndPull ==
    /\ reading.step = "listed"
    /\ pulled' = pulled \cup Batch
    /\ cursor' = Position
    /\ due' = reading.due
    /\ reading' = NotReading
    /\ UNCHANGED <<discipline, begun, listed, gone, excused>>

\* The provider or the storing fails: the cursor stays where it was.
FailPull ==
    /\ reading # NotReading
    /\ reading' = NotReading
    /\ UNCHANGED <<discipline, begun, listed, gone, cursor, pulled, due, excused>>

----------------------------------------------------------------------------
PullsInit ==
    /\ discipline \in Disciplines
    /\ begun = 0 /\ listed = {} /\ gone = 0
    /\ cursor = [is |-> "none", at |-> 0]
    /\ reading = NotReading
    /\ pulled = {} /\ due = {}
    /\ excused = [items |-> {}, limit |-> FALSE, place |-> FALSE]

PullsNext ==
    \/ ItemBegins
    \/ \E i \in Items : CallEnds(i)
    \/ \E before \in 0..begun : ProviderForgets(before)
    \/ BeginPull \/ ListItems \/ EndPull \/ FailPull

PullsSpec == PullsInit /\ [][PullsNext]_pullVars

----------------------------------------------------------------------------
\* Whatever was listed when a sync began is stored when it has ended, by it or by an
\* earlier one, unless the connector gives it up: it was too old, the call too long, or
\* more than a limit was waiting (the cursors of the connectors).
NothingPassedOver ==
    excused.limit \/ excused.place \/ due \subseteq pulled \cup excused.items
=============================================================================
