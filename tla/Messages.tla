------------------------------- MODULE Messages -------------------------------
(***************************************************************************)
(* Messages with one client through WhatsApp Business                      *)
(* (connectors/whatsapp_business, crm/comms/texting.py, records.py,        *)
(* services.py and views.py): what the client sends arrives as stored      *)
(* events that workers handle, each fetching the file that came with it;   *)
(* staff answer freely within a time of the client's last message, and     *)
(* with approved templates otherwise; and they save files to matters.      *)
(***************************************************************************)
EXTENDS Naturals, FiniteSets

CONSTANTS
    Loggers,   \* worker tasks that handle events
    Writers,    \* requests of staff
    Messages,   \* messages the client may send
    ReplyWindow,     \* reply_window, in units of the clock
    MaxHour     \* how long the clock runs

ASSUME MessagesAssumption == ReplyWindow \in Nat \ {0} /\ MaxHour \in Nat \ {0}

VARIABLES
    hour,      \* the clock
    wrote,     \* each message: when the client sent it, its caption, its file
    webhook,   \* each message's webhook event
    logger,    \* each task: the message, what was fetched, whether it found it stored
    message,   \* each message in the log: its notes, its files, when it was sent
    texted,    \* when the latest text of the staff in the log was sent; 0 without one
    errand,    \* each request of staff: what it is about to do, and when it looked
    papers,    \* each message: documents saved of its file, and activities that say so
    cut,       \* ghost: messages whose handling broke between the log and the file, or that
               \* staff deleted while a task had found them
    twice,     \* ghost: messages that two tasks did not find stored
    undone       \* ghost: messages deleted while a request was saving their file

messageVars == <<hour, wrote, webhook, logger, message, texted, errand, papers,
                 cut, twice, undone>>

----------------------------------------------------------------------------
Hours == 0..MaxHour
Unwritten == [sent |-> FALSE, at |-> 0, caption |-> FALSE, file |-> "none"]
Notes == {"sent", "failed", "notKept", "refused"}
NotLogged == [stored |-> FALSE, notes |-> {}, files |-> 0]
NoHandling == [step |-> "idle", of |-> "none", got |-> "nothing", note |-> "none",
               new |-> FALSE]
NoErrand == [does |-> "nothing", of |-> "none", at |-> 0]

MessagesTypeOK ==
    /\ hour \in Hours
    /\ wrote \in [Messages -> [sent : BOOLEAN, at : Hours, caption : BOOLEAN,
                               file : {"none", "kind", "other"}]]
    /\ webhook \in [Messages -> {"none", "stored", "processed"}]
    /\ logger \in [Loggers -> [step : {"idle", "fetched", "found", "keeping"},
                                 of : Messages \cup {"none"}, got : {"nothing", "file"},
                                 note : Notes \cup {"none"}, new : BOOLEAN]]
    /\ message \in [Messages -> [stored : BOOLEAN, notes : SUBSET Notes, files : 0..2]]
    /\ texted \in Hours
    /\ errand \in [Writers -> [does : {"nothing", "text", "template", "save"},
                                of : Messages \cup {"none"}, at : Hours]]
    /\ papers \in [Messages -> [documents : 0..2, noted : 0..2]]
    /\ cut \subseteq Messages /\ twice \subseteq Messages /\ undone \subseteq Messages

HourGoesBy ==
    /\ hour < MaxHour
    /\ hour' = hour + 1
    /\ UNCHANGED <<wrote, webhook, logger, message, texted, errand, papers, cut,
                   twice, undone>>

----------------------------------------------------------------------------
(* The client's messages. *)

\* With or without words, and with no file, one of a kind that is fetched, or another;
\* what has neither words nor a file, such as a reaction, is not filed (incoming).
ClientWrites(m) ==
    /\ ~wrote[m].sent
    /\ \E caption \in BOOLEAN, file \in {"none", "kind", "other"} :
          /\ caption \/ file # "none"
          /\ wrote' = [wrote EXCEPT ![m] =
                [sent |-> TRUE, at |-> hour, caption |-> caption, file |-> file]]
    /\ UNCHANGED <<hour, webhook, logger, message, texted, errand, papers, cut,
                   twice, undone>>

\* The webhook, signed and for this number, is stored; Meta's repeats are the same event.
StoreMessage(m) ==
    /\ wrote[m].sent /\ webhook[m] = "none"
    /\ webhook' = [webhook EXCEPT ![m] = "stored"]
    /\ UNCHANGED <<hour, wrote, logger, message, texted, errand, papers, cut,
                   twice, undone>>

\* Slip: the note is left out whenever there is a caption.
NoteWith(m, got, note) == IF wrote[m].caption THEN "none" ELSE note

\* A kept file needs no note when its caption says what it is.
NoteFor(m, got, note) == IF got = "file" /\ wrote[m].caption THEN "none" ELSE note

\* fetch_media: the file, or why there is none.
Fetched(m) ==
    CASE wrote[m].file = "none" -> {<<"nothing", "none">>}
      [] wrote[m].file = "other" -> {<<"nothing", "notKept">>}
      [] OTHER -> {<<"file", "sent">>, <<"nothing", "notKept">>, <<"nothing", "failed">>}

\* A task for an event that is not processed; there may be several.
HandleMessage(h, m) ==
    /\ logger[h] = NoHandling
    /\ webhook[m] = "stored"
    /\ \E f \in Fetched(m) :
          logger' = [logger EXCEPT ![h] =
              [NoHandling EXCEPT !.step = "fetched", !.of = m, !.got = f[1],
                                 !.note = NoteFor(m, f[1], f[2])]]
    /\ UNCHANGED <<hour, wrote, webhook, message, texted, errand, papers, cut,
                   twice, undone>>

\* store_one looks for the message by its ID.
LookForMessage(h) ==
    LET m == logger[h].of IN
    /\ logger[h].step = "fetched"
    /\ logger' = [logger EXCEPT ![h].step = "found", ![h].new = ~message[m].stored]
    /\ twice' = IF \/ message[m].stored
                   \/ \A g \in Loggers : ~(logger[g].of = m /\ logger[g].new)
                THEN twice ELSE twice \cup {m}
    /\ UNCHANGED <<hour, wrote, webhook, message, texted, errand, papers, cut, undone>>

\* record_communication: the words, and notes that are not there yet.
LogMessage(h) ==
    LET m == logger[h].of IN
    /\ logger[h].step = "found"
    /\ message' = [message EXCEPT ![m].stored = TRUE,
                                  ![m].notes = @ \cup ({logger[h].note} \ {"none"})]
    /\ logger' = [logger EXCEPT ![h].step = "keeping"]
    /\ UNCHANGED <<hour, wrote, webhook, texted, errand, papers, cut, twice, undone>>

\* keep_attachments, the first time the message is seen: on the terms of an upload, or with
\* a note that it was not kept.  Then the event is done with.
KeepAttachment(h) ==
    LET m == logger[h].of IN
    /\ logger[h].step = "keeping"
    /\ IF logger[h].new /\ logger[h].got = "file" /\ message[m].stored
       THEN \/ message' = [message EXCEPT ![m].files = IF @ = 2 THEN 2 ELSE @ + 1]
            \/ message' = [message EXCEPT ![m].notes = @ \cup {"refused"}]
       ELSE UNCHANGED message
    /\ webhook' = [webhook EXCEPT ![m] = "processed"]
    /\ logger' = [logger EXCEPT ![h] = NoHandling]
    /\ UNCHANGED <<hour, wrote, texted, errand, papers, cut, twice, undone>>

\* The worker stops, or the file's storage fails: the one leaves the event to be handled
\* again, the other is only logged (store_records).
BreakHandling(h) ==
    LET m == logger[h].of IN
    /\ logger[h] # NoHandling
    /\ logger' = [logger EXCEPT ![h] = NoHandling]
    /\ cut' = IF logger[h].step = "keeping" THEN cut \cup {m} ELSE cut
    /\ webhook' \in {webhook, [webhook EXCEPT ![m] = "processed"]}
    /\ webhook' # webhook => logger[h].step = "keeping"
    /\ UNCHANGED <<hour, wrote, message, texted, errand, papers, twice, undone>>

----------------------------------------------------------------------------
(* Staff answer. *)

\* Slip: the window runs from the latest text either way.
LatestOfAll ==
    ({texted} \ {0}) \cup {wrote[m].at : m \in {m \in Messages : message[m].stored}}

\* reply_window_ends: the client's texts in the log.
LatestText == {wrote[m].at : m \in {m \in Messages : message[m].stored}}

CanTextFreely == \E at \in LatestText : hour < at + ReplyWindow

\* Freely when the client wrote of late, and otherwise with a template from the list the
\* CRM keeps for a while.
BeginAnswer(w) ==
    /\ errand[w] = NoErrand
    /\ \E how \in {"text", "template"} :
          /\ how = "text" => CanTextFreely
          /\ errand' = [errand EXCEPT ![w] = [NoErrand EXCEPT !.does = how, !.at = hour]]
    /\ UNCHANGED <<hour, wrote, webhook, logger, message, texted, papers, cut,
                   twice, undone>>

\* Meta's own window.
WindowOpen(at) ==
    \E m \in Messages : wrote[m].sent /\ wrote[m].at <= at /\ at < wrote[m].at + ReplyWindow

\* policy.send, with Meta's answer: sent and logged, or refused, as a template no longer
\* approved is.
SendAnswer(w) ==
    /\ errand[w].does \in {"text", "template"}
    /\ \/ /\ errand[w].does = "text" => WindowOpen(hour)
          /\ texted' = hour
       \/ UNCHANGED texted
    /\ errand' = [errand EXCEPT ![w] = NoErrand]
    /\ UNCHANGED <<hour, wrote, webhook, logger, message, papers, cut, twice, undone>>

----------------------------------------------------------------------------
(* Staff save files, and delete messages. *)

\* save_to_matter reads the file.
BeginSave(w, m) ==
    /\ errand[w] = NoErrand
    /\ message[m].files > 0
    /\ errand' = [errand EXCEPT ![w] = [NoErrand EXCEPT !.does = "save", !.of = m]]
    /\ UNCHANGED <<hour, wrote, webhook, logger, message, texted, papers, cut,
                   twice, undone>>

\* The document is saved first; when the file's row is undone by then, no activity follows.
SaveToMatter(w) ==
    LET m == errand[w].of IN
    /\ errand[w].does = "save"
    /\ papers[m].documents < 2
    /\ papers' = [papers EXCEPT ![m].documents = @ + 1,
                                ![m].noted = IF m \in undone THEN @ ELSE @ + 1]
    /\ errand' = [errand EXCEPT ![w] = NoErrand]
    /\ UNCHANGED <<hour, wrote, webhook, logger, message, texted, cut, twice, undone>>

\* communication_delete, with its files.
DeleteMessage(m) ==
    /\ message[m].stored
    /\ message' = [message EXCEPT ![m] = NotLogged]
    /\ undone' = IF \E w \in Writers : errand[w].of = m THEN undone \cup {m} ELSE undone
    /\ cut' = IF \E h \in Loggers : logger[h].of = m /\ logger[h].step = "found"
              THEN cut \cup {m} ELSE cut
    /\ UNCHANGED <<hour, wrote, webhook, logger, texted, errand, papers, twice>>

----------------------------------------------------------------------------
MessagesInit ==
    /\ hour = 1
    /\ wrote = [m \in Messages |-> Unwritten] /\ webhook = [m \in Messages |-> "none"]
    /\ logger = [h \in Loggers |-> NoHandling]
    /\ message = [m \in Messages |-> NotLogged]
    /\ texted = 0
    /\ errand = [w \in Writers |-> NoErrand]
    /\ papers = [m \in Messages |-> [documents |-> 0, noted |-> 0]]
    /\ cut = {} /\ twice = {} /\ undone = {}

\* What comes in, handled by some of the tasks.
ComesIn(tasks) ==
    \/ \E m \in Messages : ClientWrites(m) \/ StoreMessage(m) \/ DeleteMessage(m)
    \/ \E h \in tasks :
          \/ \E m \in Messages : HandleMessage(h, m)
          \/ LookForMessage(h) \/ LogMessage(h) \/ KeepAttachment(h) \/ BreakHandling(h)

FilesNext ==
    \/ ComesIn(Loggers)
    \/ \E w \in Writers : SaveToMatter(w) \/ \E m \in Messages : BeginSave(w, m)

\* One task at a time is enough to log messages late.
AnswersNext ==
    \/ ComesIn({h \in Loggers : \A g \in Loggers \ {h} : logger[g] = NoHandling})
    \/ HourGoesBy
    \/ \E w \in Writers : BeginAnswer(w) \/ SendAnswer(w)

MessagesNext == FilesNext \/ AnswersNext

MessagesSpec == MessagesInit /\ [][MessagesNext]_messageVars

----------------------------------------------------------------------------
\* A message in the log that came with a file has the file, or says why not, unless its
\* handling broke off in between or staff deleted it meanwhile (store_one: files are kept
\* the first time a message is seen, and never after).
FileOrNote ==
    \A m \in Messages :
        message[m].stored /\ wrote[m].file # "none" =>
            \/ message[m].files > 0
            \/ message[m].notes \cap {"failed", "notKept", "refused"} # {}
            \/ \E h \in Loggers : logger[h].of = m /\ logger[h].new
            \/ m \in cut

\* It has the file once, unless two tasks handled it at once.
OneFileEach == \A m \in Messages : message[m].files <= 1 \/ m \in twice

\* Staff are let write freely only while WhatsApp would deliver it, as of when they are let
\* (can_text_freely), whatever was handled late or deleted.
FreelyInWindow == \A w \in Writers : errand[w].does = "text" => WindowOpen(errand[w].at)

\* A document saved from a message is noted on the matter, unless the message was deleted
\* while it was being saved.
SavedIsNoted == \A m \in Messages : papers[m].documents = papers[m].noted \/ m \in undone

\* What clients send is kept, and what staff send is let through by WhatsApp.
MessagesInOrder == FileOrNote /\ OneFileEach /\ FreelyInWindow /\ SavedIsNoted
=============================================================================
