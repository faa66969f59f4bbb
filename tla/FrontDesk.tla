------------------------------ MODULE FrontDesk ------------------------------
(***************************************************************************)
(* What reaches the office once.  Secure intake links and what clients     *)
(* send through them (crm/views.py, crm/forms.py, crm/models.py): staff    *)
(* edit the form and issue links, a client opens a link and posts its      *)
(* answers, staff revoke links and review submissions.  One intake form;   *)
(* every link is of it.                                                    *)
(* One person's timers and the time entries they leave (timer_start,       *)
(* timer_stop and time_entry_delete in crm/views.py, TimeEntry in          *)
(* crm/models.py), and the first account of a new installation             *)
(* (first_run_setup).  Each is a request that reads, and then writes under *)
(* a row lock or a constraint of the database.                             *)
(***************************************************************************)
EXTENDS Naturals, Sequences, FiniteSets

----------------------------------------------------------------------------
\* Intake forms, their links and submissions

CONSTANTS
    Questions,   \* the questions staff may ask
    Unspelled,   \* of these, the ones slugify leaves nothing of (other scripts)
    Links,       \* links that may be issued
    Browsers,    \* pages clients have open, each with the request it posts
    Desk,        \* requests of staff that revoke a link or review a submission
    MaxEdits     \* how often the form is edited

ASSUME IntakeAssumption ==
    /\ Unspelled \subseteq Questions /\ "" \notin Questions
    /\ \E p, q \in Questions : p # q
    /\ "none" \notin Links /\ MaxEdits \in Nat

VARIABLES
    asked,       \* the form: its questions in order, and whether it is offered
    edits,       \* how often the form was edited
    link,        \* each IntakeInvite
    page,        \* each browser: the link and the questions its page shows
    answering,   \* each browser: its post, once read by the form
    reviewer,    \* each request of staff: what it read and is about to write
    submission,  \* each link's IntakeSubmission
    ends,        \* ghost: for each link, what ended its use, in the order it happened
    doubled      \* ghost: submissions two reviews of which were under way at once

intakeVars == <<asked, edits, link, page, answering, reviewer, submission, ends, doubled>>

----------------------------------------------------------------------------
Forms == UNION {[1..n -> Questions] : n \in 1..2}

NewLink == [issued |-> TRUE, opened |-> FALSE, submitted |-> FALSE, revoked |-> FALSE,
            expired |-> FALSE, emailed |-> FALSE]
NoLink == [NewLink EXCEPT !.issued = FALSE]
NoPage == [link |-> "none", asks |-> << >>]

\* An answer is the label it is kept under and the question it answers.
NoSubmission == [made |-> FALSE, asks |-> << >>, answers |-> {}, edited |-> FALSE,
                 reviewers |-> << >>]
NoPost == [link |-> "none", sent |-> NoSubmission]
NoClerk == [link |-> "none", does |-> "nothing"]

IntakeTypeOK ==
    LET Shown == Forms \cup {<< >>}
        Submissions == [made : BOOLEAN, asks : Shown,
                        answers : SUBSET (Questions \X Questions), edited : BOOLEAN,
                        reviewers : Seq(Desk)]
    IN
    /\ asked \in [questions : Forms, offered : BOOLEAN] /\ edits \in 0..MaxEdits
    /\ link \in [Links -> [issued : BOOLEAN, opened : BOOLEAN, submitted : BOOLEAN,
                           revoked : BOOLEAN, expired : BOOLEAN, emailed : BOOLEAN]]
    /\ page \in [Browsers -> [link : Links \cup {"none"}, asks : Shown]]
    /\ answering \in [Browsers -> [link : Links \cup {"none"}, sent : Submissions]]
    /\ reviewer \in [Desk -> [link : Links \cup {"none"},
                           does : {"nothing", "revoke", "review"}]]
    /\ submission \in [Links -> Submissions]
    /\ ends \in [Links -> Seq({"submitted", "revoked", "expired"})]
    /\ doubled \subseteq Links

\* IntakeInvite.is_active.
IsActive(l) ==
    link[l].issued /\ ~link[l].revoked /\ ~link[l].submitted /\ ~link[l].expired

----------------------------------------------------------------------------
(* The form and its links. *)

\* intake_form_update: the questions, and whether the form is offered, as a page has them.
EditForm ==
    /\ edits < MaxEdits
    /\ edits' = edits + 1
    /\ \E f \in Forms, on \in BOOLEAN : asked' = [questions |-> f, offered |-> on]
    /\ UNCHANGED <<link, page, answering, reviewer, submission, ends, doubled>>

\* IntakeInviteForm.issue, for a form that is offered.
IssueLink(l) ==
    /\ ~link[l].issued
    /\ asked.offered
    /\ link' = [link EXCEPT ![l] = NewLink]
    /\ UNCHANGED <<asked, edits, page, answering, reviewer, submission, ends, doubled>>

\* email_intake_link, when staff asked for it.  A link whose email was not sent stays, to
\* be copied.
EmailLink(l) ==
    /\ link[l].issued /\ ~link[l].emailed /\ ~link[l].opened
    /\ link' = [link EXCEPT ![l].emailed = TRUE]
    /\ UNCHANGED <<asked, edits, page, answering, reviewer, submission, ends, doubled>>

ExpireLink(l) ==
    /\ link[l].issued /\ ~link[l].expired
    /\ link' = [link EXCEPT ![l].expired = TRUE]
    /\ ends' = [ends EXCEPT ![l] = Append(@, "expired")]
    /\ UNCHANGED <<asked, edits, page, answering, reviewer, submission, doubled>>

----------------------------------------------------------------------------
(* The client. *)

\* public_intake, GET: the first look is recorded, on that field alone.
OpenLink(b, l) ==
    /\ IsActive(l) /\ answering[b] = NoPost
    /\ link' = [link EXCEPT ![l].opened = TRUE]
    /\ page' = [page EXCEPT ![b] = [link |-> l, asks |-> asked.questions]]
    /\ UNCHANGED <<asked, edits, answering, reviewer, submission, ends, doubled>>

\* Slip: a question's key is its place alone.
KeyByPlace(f, i) == <<i, "">>

\* A question's key: its place, and what slugify makes of its text.
Key(f, i) == <<i, IF f[i] \in Unspelled THEN "" ELSE f[i]>>

\* PublicIntakeForm.answers: for each question of the form as it is now, the answer posted
\* under its key; what was posted under another key is dropped.
AnswersTo(f, asks) ==
    {<<f[ij[1]], asks[ij[2]]>> :
        ij \in {ij \in (DOMAIN f) \X (DOMAIN asks) : Key(f, ij[1]) = Key(asks, ij[2])}}

\* POST: the invite with its form is read, and the answers are read by the form.
PostAnswers(b) ==
    /\ page[b].link # "none" /\ answering[b] = NoPost
    /\ IsActive(page[b].link)
    /\ answering' = [answering EXCEPT ![b] =
          [link |-> page[b].link,
           sent |-> [NoSubmission EXCEPT
                        !.made = TRUE, !.asks = page[b].asks,
                        !.answers = AnswersTo(asked.questions, page[b].asks),
                        !.edited = page[b].asks # asked.questions]]]
    /\ UNCHANGED <<asked, edits, link, page, reviewer, submission, ends, doubled>>

\* Slip: the link is locked and not looked at again.
AcceptUnread(l) == ~submission[l].made

\* Under the link's lock: it must still be active; a second submission of one link is
\* refused by the database.
Accepts(l) == IsActive(l) /\ ~submission[l].made

\* The submission, the link's end and the contact's log in one transaction.
SubmitAnswers(b) ==
    LET l == answering[b].link IN
    /\ answering[b] # NoPost
    /\ IF Accepts(l)
       THEN /\ submission' = [submission EXCEPT ![l] = answering[b].sent]
            /\ link' = [link EXCEPT ![l].submitted = TRUE]
            /\ ends' = [ends EXCEPT ![l] = Append(@, "submitted")]
       ELSE UNCHANGED <<submission, link, ends>>
    /\ answering' = [answering EXCEPT ![b] = NoPost]
    /\ page' = [page EXCEPT ![b] = NoPage]
    /\ UNCHANGED <<asked, edits, reviewer, doubled>>

----------------------------------------------------------------------------
(* Staff. *)

\* intake_invite_revoke reads the link, submitted or not.
LookToRevoke(s, l) ==
    /\ reviewer[s] = NoClerk
    /\ link[l].issued /\ ~link[l].revoked
    /\ reviewer' = [reviewer EXCEPT ![s] = [link |-> l, does |-> "revoke"]]
    /\ UNCHANGED <<asked, edits, link, page, answering, submission, ends, doubled>>

\* revoked_at alone.
RevokeLink(s) ==
    LET l == reviewer[s].link IN
    /\ reviewer[s].does = "revoke"
    /\ link' = [link EXCEPT ![l].revoked = TRUE]
    /\ ends' = IF link[l].revoked THEN ends ELSE [ends EXCEPT ![l] = Append(@, "revoked")]
    /\ reviewer' = [reviewer EXCEPT ![s] = NoClerk]
    /\ UNCHANGED <<asked, edits, page, answering, submission, doubled>>

\* intake_submission_review: nothing locks the submission.
LookToReview(s, l) ==
    /\ reviewer[s] = NoClerk
    /\ submission[l].made /\ submission[l].reviewers = << >>
    /\ reviewer' = [reviewer EXCEPT ![s] = [link |-> l, does |-> "review"]]
    /\ doubled' = IF \E t \in Desk : reviewer[t] = [link |-> l, does |-> "review"]
                  THEN doubled \cup {l} ELSE doubled
    /\ UNCHANGED <<asked, edits, link, page, answering, submission, ends>>

\* reviewed_at and reviewed_by; the last of the reviewers is who is shown.
MarkReviewed(s) ==
    LET l == reviewer[s].link IN
    /\ reviewer[s].does = "review"
    /\ submission' = [submission EXCEPT ![l].reviewers = Append(@, s)]
    /\ reviewer' = [reviewer EXCEPT ![s] = NoClerk]
    /\ UNCHANGED <<asked, edits, link, page, answering, ends, doubled>>

----------------------------------------------------------------------------
IntakeInit ==
    /\ asked = [questions |-> CHOOSE f \in Forms : Len(f) = 2 /\ f[1] # f[2],
                offered |-> TRUE]
    /\ edits = 0
    /\ link = [l \in Links |-> NoLink]
    /\ page = [b \in Browsers |-> NoPage] /\ answering = [b \in Browsers |-> NoPost]
    /\ reviewer = [s \in Desk |-> NoClerk]
    /\ submission = [l \in Links |-> NoSubmission]
    /\ ends = [l \in Links |-> << >>] /\ doubled = {}

IntakeNext ==
    \/ EditForm
    \/ \E l \in Links :
          \/ IssueLink(l) \/ EmailLink(l) \/ ExpireLink(l)
          \/ \E b \in Browsers : OpenLink(b, l)
          \/ \E s \in Desk : LookToRevoke(s, l) \/ LookToReview(s, l)
    \/ \E b \in Browsers : PostAnswers(b) \/ SubmitAnswers(b)
    \/ \E s \in Desk : RevokeLink(s) \/ MarkReviewed(s)

IntakeSpec == IntakeInit /\ [][IntakeNext]_intakeVars

----------------------------------------------------------------------------
\* A link is used once, and never after it was revoked or expired, wherever the revocation
\* falls between a client's page, its post and the lock (public_intake).
UsedOnce ==
    \A l \in Links :
        /\ submission[l].made <=> link[l].submitted
        /\ link[l].submitted => ends[l] # << >> /\ Head(ends[l]) = "submitted"

\* What was answered is kept, under the question it answers.  A form edited after the page
\* was drawn loses the answers to the questions it changed or moved; and questions in a
\* script slugify leaves nothing of share the key of their place.
AnswersKept ==
    \A l \in Links : LET s == submission[l] IN
        /\ \A a \in s.answers : a[1] = a[2] \/ ({a[1], a[2]} \subseteq Unspelled /\ s.edited)
        /\ s.edited \/ \A i \in DOMAIN s.asks : <<s.asks[i], s.asks[i]>> \in s.answers

\* A submission's first reviewer stays its reviewer, unless two reviews doubled.
FirstReviewerStays == \A l \in Links : Len(submission[l].reviewers) <= 1 \/ l \in doubled

\* A link brings one submission, as it was answered (public_intake).
IntakeInOrder == UsedOnce /\ AnswersKept /\ FirstReviewerStays

----------------------------------------------------------------------------
\* Timers, and a new installation

CONSTANTS
    Windows,     \* browser windows of the person, each with one request at a time
    MaxEntries,  \* how many entries are made
    Visitors     \* visitors of a new installation

ASSUME TimersAssumption == MaxEntries \in Nat \ {0}

VARIABLES
    entries,   \* the person's time entries, in the order they were made
    moment,    \* the clock: it goes on with every write
    window,    \* each window's request: what it does, and the entry it found
    overran,   \* ghost: entries a stop reached after a start had stopped them
    firm,      \* whether the FirmProfile row is there
    setup,     \* each visitor: where its first-run request is
    admins     \* accounts that first-run setup made

timerVars == <<entries, moment, window, overran, firm, setup, admins>>

----------------------------------------------------------------------------
NoEntry == [made |-> FALSE, from |-> 0, to |-> 0]
Resting == [does |-> "nothing", found |-> 0]
Numbered == 1..MaxEntries

TimersTypeOK ==
    /\ entries \in [Numbered -> [made : BOOLEAN, from : Nat, to : Nat]]
    /\ moment \in Nat
    /\ window \in [Windows -> [does : {"nothing", "start", "stop"}, found : 0..MaxEntries]]
    /\ overran \subseteq Numbered
    /\ firm \in BOOLEAN
    /\ setup \in [Visitors -> {"away", "form", "lock", "made", "refused"}]
    /\ admins \subseteq Visitors

\* stopped_at is not set: the database allows one such entry of a person.
Running == {n \in Numbered : entries[n].made /\ entries[n].to = 0}
Found == IF Running = {} THEN 0 ELSE CHOOSE n \in Running : TRUE

\* Entries that were made and not deleted keep their numbers.
NextEntry == {n \in Numbered : entries[n].from = 0 /\ \A m \in 1..n-1 : entries[m].from # 0}

----------------------------------------------------------------------------
(* timer_start. *)

LookToStart(w) ==
    /\ window[w] = Resting
    /\ NextEntry # {}
    /\ window' = [window EXCEPT ![w] = [does |-> "start", found |-> Found]]
    /\ UNCHANGED <<entries, moment, overran, firm, setup, admins>>

\* The entry that was found is stopped if it still runs once its row is locked.
StoppedBefore(w) ==
    IF window[w].found \in Running
    THEN [entries EXCEPT ![window[w].found].to = moment + 1]
    ELSE entries

\* Slip: nothing keeps the database from a second running entry.
MayRunToo(after) == TRUE

\* crm_one_running_timer_per_user, for a new entry after the others are as they are.
MayRun(after) == \A n \in Numbered : after[n].made => after[n].to # 0

\* Stopping it and making the new one are one transaction; when the database refuses the
\* new one nothing is written.
StartTimer(w) ==
    /\ window[w].does = "start"
    /\ window' = [window EXCEPT ![w] = Resting]
    /\ IF MayRun(StoppedBefore(w))
       THEN /\ \E n \in NextEntry : entries' =
                  [StoppedBefore(w) EXCEPT ![n] =
                      [made |-> TRUE, from |-> moment + 1, to |-> 0]]
            /\ moment' = moment + 1
       ELSE UNCHANGED <<entries, moment>>
    /\ UNCHANGED <<overran, firm, setup, admins>>

----------------------------------------------------------------------------
(* timer_stop and time_entry_delete. *)

LookToStop(w) ==
    /\ window[w] = Resting
    /\ Running # {}
    /\ window' = [window EXCEPT ![w] = [does |-> "stop", found |-> Found]]
    /\ UNCHANGED <<entries, moment, overran, firm, setup, admins>>

\* stopped_at of the entry that was read, running or not; one deleted since makes the save
\* fail.
StopTimer(w) ==
    LET n == window[w].found IN
    /\ window[w].does = "stop"
    /\ window' = [window EXCEPT ![w] = Resting]
    /\ IF entries[n].made
       THEN /\ entries' = [entries EXCEPT ![n].to = moment + 1]
            /\ moment' = moment + 1
            /\ overran' = IF n \in Running THEN overran ELSE overran \cup {n}
       ELSE UNCHANGED <<entries, moment, overran>>
    /\ UNCHANGED <<firm, setup, admins>>

DeleteEntry(n) ==
    /\ entries[n].made
    /\ entries' = [entries EXCEPT ![n].made = FALSE]
    /\ UNCHANGED <<moment, window, overran, firm, setup, admins>>

----------------------------------------------------------------------------
(* first_run_setup. *)

HasAccounts == admins # {}

\* The page, for an installation without accounts.
OpenSetup(v) ==
    /\ setup[v] = "away" /\ ~HasAccounts
    /\ setup' = [setup EXCEPT ![v] = "form"]
    /\ UNCHANGED <<entries, moment, window, overran, firm, admins>>

\* The post looks for accounts, and then for the firm's row; a row that two make at once is
\* refused to one of them.
PostSetup(v) ==
    /\ setup[v] = "form"
    /\ setup' = [setup EXCEPT ![v] = IF HasAccounts THEN "refused" ELSE "lock"]
    /\ UNCHANGED <<entries, moment, window, overran, firm, admins>>

\* Slip: accounts are not looked for again under the lock.
FirstOfAll(v) == TRUE

\* Under the lock of the firm's row.
StillFirst(v) == ~HasAccounts

MakeAdmin(v) ==
    /\ setup[v] = "lock"
    /\ \/ /\ StillFirst(v)
          /\ firm' = TRUE
          /\ admins' = admins \cup {v}
          /\ setup' = [setup EXCEPT ![v] = "made"]
       \/ /\ ~StillFirst(v) \/ ~firm
          /\ setup' = [setup EXCEPT ![v] = "refused"]
          /\ UNCHANGED <<firm, admins>>
    /\ UNCHANGED <<entries, moment, window, overran>>

----------------------------------------------------------------------------
TimersInit ==
    /\ entries = [n \in Numbered |-> NoEntry] /\ moment = 0
    /\ window = [w \in Windows |-> Resting] /\ overran = {}
    /\ firm \in BOOLEAN
    /\ setup = [v \in Visitors |-> "away"] /\ admins = {}

TimeNext ==
    \/ \E w \in Windows :
          LookToStart(w) \/ StartTimer(w) \/ LookToStop(w) \/ StopTimer(w)
    \/ \E n \in Numbered : DeleteEntry(n)

SetupNext == \E v \in Visitors : OpenSetup(v) \/ PostSetup(v) \/ MakeAdmin(v)

TimersNext == TimeNext \/ SetupNext

TimersSpec == TimersInit /\ [][TimersNext]_timerVars

----------------------------------------------------------------------------
\* A person has one timer running at most, and no moment is in two of their entries,
\* except where a stop that had read an entry before a start wrote it after
\* (timer_start, timer_stop).
TimeCountedOnce ==
    /\ Cardinality(Running) <= 1
    /\ \A m, n \in Numbered :
          entries[m].made /\ entries[n].made /\ entries[m].from < entries[n].from =>
              \/ entries[m].to # 0 /\ entries[m].to <= entries[n].from
              \/ m \in overran

\* First-run setup makes one account, whoever reaches it at once (first_run_setup: "disabled
\* once any account exists").
OneFirstAdmin == Cardinality(admins) <= 1

\* What reaches the office once is counted once: an intake link's submission, a person's
\* time, and a new installation's first administrator (intake.py, models.py, views.py).
FrontDeskInOrder == IntakeInOrder /\ TimeCountedOnce /\ OneFirstAdmin
=============================================================================
