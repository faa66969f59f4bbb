--------------------------- MODULE Communications ----------------------------
(***************************************************************************)
(* The communications log and consent to texts (crm/comms).                *)
(* One provider record in the log: copies of it and delivery updates       *)
(* arrive by sync and webhook, in any order and in several workers, while  *)
(* staff link it to a contact, save contacts with its number, and log the  *)
(* text they sent under the same provider ID.                              *)
(* One contact's consent: replies such as STOP and START set the contact's *)
(* flag (records.py, store_one), staff set it on the contact's page        *)
(* (views.py), and texts that staff send are held back by it (texting.py,  *)
(* connect/policy.py).  Each of them works from the contact as it read it, *)
(* and a change of the contact's details (crm/views.py, api/views.py)      *)
(* saves the flag again as it was read.                                    *)
(***************************************************************************)
EXTENDS Naturals, FiniteSets, Sequences

----------------------------------------------------------------------------
\* The log

CONSTANTS
    Storers,   \* worker tasks that store copies
    Contacts,
    Ranks,     \* how far along a delivery is: ranks of STATUS_RANK
    SentRank,  \* the rank of "sent"
    MaxCopies  \* bound on the copies and updates that arrive

ASSUME CommunicationsAssumption ==
    /\ Storers # {} /\ Contacts # {}
    /\ Ranks \subseteq Nat \ {0}
    /\ SentRank \in Ranks
    /\ MaxCopies \in Nat \ {0}

VARIABLES
    ours,     \* it is a text this CRM sends, and not a call, an email or an incoming text
    skipping, \* the connection's setting to keep only records of known contacts
    record,   \* the communication: stored, delivery status, contact
    numbers,  \* the contacts who have its number
    linking,  \* contacts saved with it whose communications are not linked yet
    storer,   \* what each task is doing: step, copy, record as read, contact matched
    log,      \* the request that sends the text: step, and whether it saw a status
    copies,   \* how many copies have arrived
    stale     \* a match was stored that a contact saved meanwhile had outdated

commsVars == <<ours, skipping, record, numbers, linking, storer, log, copies, stale>>
settings == <<ours, skipping>>

Nobody == "nobody"
ASSUME NobodyAssumption == Nobody \notin Contacts
Links == Contacts \cup {Nobody}
Records == [stored : BOOLEAN, rank : Ranks \cup {0}, contact : Links]
Copies == [body : BOOLEAN, rank : Ranks \cup {0}]

NoRecord == [stored |-> FALSE, rank |-> 0, contact |-> Nobody]
AtRest == [step |-> "idle", copy |-> [body |-> FALSE, rank |-> 0], seen |-> NoRecord,
           match |-> Nobody]

CommsTypeOK ==
    /\ ours \in BOOLEAN /\ skipping \in BOOLEAN
    /\ record \in Records
    /\ numbers \subseteq Contacts
    /\ linking \subseteq numbers
    /\ storer \in [Storers -> [step : {"idle", "read", "matched"}, copy : Copies,
                               seen : Records, match : Links]]
    /\ log \in [step : {"unsent", "sent", "checked", "logged"}, status : BOOLEAN]
    /\ copies \in 0..MaxCopies
    /\ stale \in BOOLEAN

----------------------------------------------------------------------------
\* Matching

\* match_contact: the one contact with the number, if there is exactly one.
MatchContact ==
    IF Cardinality(numbers) = 1 THEN CHOOSE c \in Contacts : numbers = {c} ELSE Nobody

LinkTo(row, contact) == [row EXCEPT !.contact = contact]

----------------------------------------------------------------------------
\* store_one

\* Calls, emails and incoming texts arrive whole and have no delivery status; of the
\* CRM's own text come updates, and from some services whole copies.
Arrives(t, copy) ==
    /\ storer[t].step = "idle"
    /\ copies < MaxCopies
    /\ IF ours THEN log.step # "unsent" /\ copy.rank # 0 ELSE copy = [body |-> TRUE, rank |-> 0]
    /\ copies' = copies + 1
    /\ storer' = [storer EXCEPT ![t] = [AtRest EXCEPT !.step = "read", !.copy = copy,
                                                      !.seen = record]]
    /\ UNCHANGED <<settings, record, numbers, linking, log, stale>>

\* An update of a text the CRM has no copy of is dropped.
DropUpdate(t) ==
    /\ storer[t].step = "read"
    /\ ours /\ ~storer[t].seen.stored /\ ~storer[t].copy.body
    /\ storer' = [storer EXCEPT ![t] = AtRest]
    /\ UNCHANGED <<settings, record, numbers, linking, log, copies, stale>>

Match(t) ==
    /\ storer[t].step = "read"
    /\ ~(ours /\ ~storer[t].seen.stored /\ ~storer[t].copy.body)
    /\ storer' = [storer EXCEPT ![t] = [@ EXCEPT !.step = "matched", !.match = MatchContact]]
    /\ UNCHANGED <<settings, record, numbers, linking, log, copies, stale>>

Skips(t) == skipping /\ storer[t].match = Nobody /\ ~storer[t].seen.stored

SkipUnmatched(t) ==
    /\ storer[t].step = "matched"
    /\ Skips(t)
    /\ storer' = [storer EXCEPT ![t] = AtRest]
    /\ UNCHANGED <<settings, record, numbers, linking, log, copies, stale>>

\* Slip: a status moves back.
NewestStatus(seen, row, rank) == rank

\* keep_stored_values: an empty status, or one that lies behind what was read, is left.
StatusToStore(seen, row, rank) ==
    IF seen.stored /\ (rank = 0 \/ rank < seen.rank) THEN row.rank ELSE rank

\* Slip: a record that was linked before is matched again.
AlwaysMatched(seen, row, match) == match

\* A match is stored, and no match unless a link was read.
ContactToStore(seen, row, match) ==
    IF match # Nobody \/ ~(seen.stored /\ seen.contact # Nobody) THEN match ELSE row.contact

\* update_or_create writes the fields that are left, and nothing else.
Store(t) ==
    LET seen == storer[t].seen
        contact == ContactToStore(seen, record, storer[t].match)
        linked == LinkTo(record, contact)
    IN
    /\ storer[t].step = "matched"
    /\ ~Skips(t)
    /\ record' = [linked EXCEPT !.stored = TRUE,
                                !.rank = StatusToStore(seen, record, storer[t].copy.rank)]
    /\ stale' = (stale \/ storer[t].match # MatchContact)
    /\ storer' = [storer EXCEPT ![t] = AtRest]
    /\ UNCHANGED <<settings, numbers, linking, log, copies>>

----------------------------------------------------------------------------
\* send_text and log_sent, for a text to one of the contacts

SendText ==
    /\ ours
    /\ log.step = "unsent"
    /\ log' = [log EXCEPT !.step = "sent"]
    /\ UNCHANGED <<settings, record, numbers, linking, storer, copies, stale>>

CheckLog ==
    /\ log.step = "sent"
    /\ log' = [step |-> "checked", status |-> record.stored /\ record.rank # 0]
    /\ UNCHANGED <<settings, record, numbers, linking, storer, copies, stale>>

LogSent(contact) ==
    /\ log.step = "checked"
    /\ record' = [LinkTo(record, contact) EXCEPT
                     !.stored = TRUE,
                     !.rank = IF log.status THEN @ ELSE SentRank]
    /\ log' = [log EXCEPT !.step = "logged"]
    /\ UNCHANGED <<settings, numbers, linking, storer, copies, stale>>

----------------------------------------------------------------------------
\* Staff

\* communication_match shows only what is linked to nobody.
LinkByHand(contact) ==
    /\ record.stored /\ record.contact = Nobody
    /\ record' = LinkTo(record, contact)
    /\ UNCHANGED <<settings, numbers, linking, storer, log, copies, stale>>

\* Slip: what waits is looked at before the contact is saved.
LinkBeforeSaved(contact) ==
    /\ contact \notin numbers
    /\ linking' = linking \cup {contact}
    /\ UNCHANGED <<settings, record, numbers, storer, log, copies, stale>>

\* A contact is saved with the number, and contact_saved links what waits for it.
SaveContact(contact) ==
    /\ contact \notin numbers
    /\ numbers' = numbers \cup {contact}
    /\ linking' = linking \cup {contact}
    /\ UNCHANGED <<settings, record, storer, log, copies, stale>>

\* Slip: nothing is linked when a contact is saved.
LinkNothing(contact) ==
    /\ contact \in linking
    /\ linking' = linking \ {contact}
    /\ UNCHANGED <<settings, record, numbers, storer, log, copies, stale>>

LinkUnmatched(contact) ==
    /\ contact \in linking
    /\ linking' = linking \ {contact}
    /\ record' = IF MatchContact = contact /\ record.stored /\ record.contact = Nobody
                 THEN LinkTo(record, contact)
                 ELSE record
    /\ UNCHANGED <<settings, numbers, storer, log, copies, stale>>

----------------------------------------------------------------------------
CommsInit ==
    /\ ours \in BOOLEAN /\ skipping \in BOOLEAN
    /\ record = NoRecord
    /\ numbers = {} /\ linking = {}
    /\ storer = [t \in Storers |-> AtRest]
    /\ log = [step |-> "unsent", status |-> FALSE]
    /\ copies = 0
    /\ stale = FALSE

StoreStep(t) ==
    \/ \E copy \in Copies : Arrives(t, copy)
    \/ DropUpdate(t) \/ Match(t) \/ SkipUnmatched(t) \/ Store(t)

CommsNext ==
    \/ \E t \in Storers : StoreStep(t)
    \/ SendText \/ CheckLog
    \/ \E c \in Contacts : LogSent(c) \/ LinkByHand(c) \/ SaveContact(c) \/ LinkUnmatched(c)

CommsSpec == CommsInit /\ [][CommsNext]_commsVars

----------------------------------------------------------------------------
\* A delivery status moves back only when it is written by a task, or by the request
\* that logs the text, from a read that another write has outdated (keep_stored_values
\* and log_sent).
StatusMovesForward ==
    [][record'.rank < record.rank =>
          \/ \E t \in Storers : Store(t) /\ storer[t].seen.rank # record.rank
          \/ log.step = "checked" /\ ~log.status]_commsVars

\* A stored record waits for a contact only while its number means none or several,
\* unless it was stored with a match that a contact saved meanwhile had outdated
\* (store_one and link_unmatched).
WaitsOnlyIfUnclear ==
    stale \/ linking # {} \/ ~record.stored \/ record.contact # Nobody
        \/ MatchContact = Nobody

\* Records find their contacts, and their statuses only move forward.
LogInOrder == []WaitsOnlyIfUnclear /\ StatusMovesForward

----------------------------------------------------------------------------
\* Consent

CONSTANTS
    Handlers,   \* worker tasks and requests that set the flag or save the contact
    Senders,    \* requests that send a text
    MaxReplies  \* bound on the contact's replies

ASSUME ConsentAssumption == Handlers # {} /\ Senders # {} /\ MaxReplies \in Nat

VARIABLES
    optedOut,  \* the contact's flag
    replies,   \* the words the contact replied, in order
    taken,     \* the replies a worker has taken
    handler,   \* the word each handler applies, and the flag as it read it
    sender,    \* what each sender is doing, and the flag as it read it
    underWay,  \* senders that had begun when the contact was last opted out
    serial,    \* replies were so far handled one by one, in order
    wish       \* the word that was applied last

consentVars == <<optedOut, replies, taken, handler, sender, underWay, serial, wish>>

Words == {"stop", "start"}
Resting == [word |-> "none", seen |-> FALSE]
Away == [step |-> "idle", seen |-> FALSE]

ConsentTypeOK ==
    /\ optedOut \in BOOLEAN
    /\ replies \in Seq(Words) /\ Len(replies) <= MaxReplies
    /\ taken \subseteq DOMAIN replies
    /\ handler \in [Handlers -> [word : Words \cup {"none", "edit"}, seen : BOOLEAN]]
    /\ sender \in [Senders -> [step : {"idle", "read", "allowed"}, seen : BOOLEAN]]
    /\ underWay \subseteq Senders
    /\ serial \in BOOLEAN
    /\ wish \in Words

----------------------------------------------------------------------------
Reply(word) ==
    /\ Len(replies) < MaxReplies
    /\ replies' = Append(replies, word)
    /\ UNCHANGED <<optedOut, taken, handler, sender, underWay, serial, wish>>

AllRest == \A h \in Handlers : handler[h] = Resting
Reads(h, word) == handler' = [handler EXCEPT ![h] = [word |-> word, seen |-> optedOut]]

\* store_one matches a reply to the contact.  Events are handled in any order.
TakeReply(h, i) ==
    /\ handler[h] = Resting
    /\ i \notin taken
    /\ taken' = taken \cup {i}
    /\ Reads(h, replies[i])
    /\ serial' = (serial /\ AllRest /\ \A j \in taken : j < i)
    /\ UNCHANGED <<optedOut, replies, sender, underWay, wish>>

\* A member of staff sets it on the contact's page, or changes the contact's details
\* there or over the API.
StaffSets(h, word) ==
    /\ handler[h] = Resting
    /\ Reads(h, word)
    /\ serial' = (serial /\ AllRest)
    /\ UNCHANGED <<optedOut, replies, taken, sender, underWay, wish>>

\* Slip: an opt-out is dropped when it finds the contact opted in.
DropStop(seen, word) == IF word = "stop" /\ ~seen THEN FALSE ELSE word = "stop"

\* set_texting_opt_out compares with the contact it was given, and saves a change.
FlagAfter(seen, word) == IF seen = (word = "stop") THEN optedOut ELSE word = "stop"

SetOptOut(h) ==
    LET word == handler[h].word IN
    /\ word \in Words
    /\ optedOut' = FlagAfter(handler[h].seen, word)
    /\ underWay' = IF optedOut' /\ ~optedOut
                   THEN {s \in Senders : sender[s].step # "idle"}
                   ELSE underWay
    /\ wish' = word
    /\ handler' = [handler EXCEPT ![h] = Resting]
    /\ UNCHANGED <<replies, taken, sender, serial>>

\* contact_update and contact_detail save every column of the contact as they read it.
SaveDetails(h) ==
    /\ handler[h].word = "edit"
    /\ optedOut' = handler[h].seen
    /\ underWay' = IF optedOut' /\ ~optedOut
                   THEN {s \in Senders : sender[s].step # "idle"}
                   ELSE underWay
    /\ handler' = [handler EXCEPT ![h] = Resting]
    /\ UNCHANGED <<replies, taken, sender, serial, wish>>

----------------------------------------------------------------------------
\* Sending a text

BeginText(s) ==
    /\ sender[s].step = "idle"
    /\ sender' = [sender EXCEPT ![s] = [step |-> "read", seen |-> optedOut]]
    /\ UNCHANGED <<optedOut, replies, taken, handler, underWay, serial, wish>>

Leaves(s) ==
    /\ sender' = [sender EXCEPT ![s] = Away]
    /\ underWay' = underWay \ {s}
    /\ UNCHANGED <<optedOut, replies, taken, handler, serial, wish>>

\* Slip: the policy does not look at the contact.
AllowAnyText(s) ==
    /\ sender[s].step = "read"
    /\ sender' = [sender EXCEPT ![s].step = "allowed"]
    /\ UNCHANGED <<optedOut, replies, taken, handler, underWay, serial, wish>>

\* evaluate lets the text pass, unless the contact it was given opted out ...
AllowText(s) ==
    /\ sender[s].step = "read"
    /\ ~sender[s].seen
    /\ sender' = [sender EXCEPT ![s].step = "allowed"]
    /\ UNCHANGED <<optedOut, replies, taken, handler, underWay, serial, wish>>

\* ... or another of its checks stops it.
HoldText(s) == sender[s].step = "read" /\ Leaves(s)

\* perform hands it to the texting service.
PerformText(s) == sender[s].step = "allowed" /\ Leaves(s)

----------------------------------------------------------------------------
ConsentInit ==
    /\ optedOut = FALSE
    /\ replies = <<>>
    /\ taken = {}
    /\ handler = [h \in Handlers |-> Resting]
    /\ sender = [s \in Senders |-> Away]
    /\ underWay = {}
    /\ serial = TRUE
    /\ wish = "start"

ConsentNext ==
    \/ \E word \in Words : Reply(word)
    \/ \E h \in Handlers :
          \/ \E i \in DOMAIN replies : TakeReply(h, i)
          \/ \E word \in Words \cup {"edit"} : StaffSets(h, word)
          \/ SetOptOut(h) \/ SaveDetails(h)
    \/ \E s \in Senders : BeginText(s) \/ AllowText(s) \/ HoldText(s) \/ PerformText(s)

ConsentSpec == ConsentInit /\ [][ConsentNext]_consentVars

----------------------------------------------------------------------------
\* While the contact's replies and what staff record are handled one after the other,
\* replies in the order they were sent, the flag says what was wished last
\* (store_one, set_texting_opt_out and
\* the full save of contact_update; overlapping requests can break the order).
ConsentFollowsWishes == serial /\ AllRest => optedOut = (wish = "stop")

\* A text goes to a contact who opted out only if it was already under way when the
\* opt-out was stored (send_text, evaluate and texting_opted_out).
NoTextAfterOptOut ==
    [][\A s \in Senders : PerformText(s) /\ optedOut => s \in underWay]_consentVars

\* What the contact wished for holds for the flag and for the texts.
ConsentKept == []ConsentFollowsWishes /\ NoTextAfterOptOut
=============================================================================
