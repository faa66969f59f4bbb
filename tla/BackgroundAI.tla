---------------------------- MODULE BackgroundAI -----------------------------
(***************************************************************************)
(* What the worker's background runs have AI models make (crm/ai).         *)
(* Task suggestions: runs review the communications logged since the last  *)
(* run that succeeded (jobs.py, suggestions.py), and staff accept or       *)
(* dismiss what a run suggests (feature_views.py).  A run that goes on     *)
(* past the next hour is taken for abandoned, so runs may overlap; a       *)
(* communication may come to be seen after its time, when its transaction  *)
(* commits late or staff link it to a contact.                             *)
(* The prep memo of one consult (memos.py): runs draft it when it is       *)
(* needed and again when the records changed, staff ask for it             *)
(* (consult_memo_prepare, prepare_memo), and each draft goes through       *)
(* generate (client.py).  A draft reads the records and the memo's row,    *)
(* asks the model, and saves; nothing locks the row.                       *)
(***************************************************************************)
EXTENDS Naturals, Sequences, FiniteSets, FiniteSetsExt

----------------------------------------------------------------------------
\* Suggestions

CONSTANTS
    Runners,        \* worker processes
    Reviewers,      \* requests of staff that decide on suggestions
    PerRun,         \* PER_RUN, how many communications a run reviews
    KeepRuns,       \* KEEP_RUNS, how many runs are kept
    FirstLookback,  \* FIRST_LOOKBACK, in the intervals between runs
    MaxHour,        \* how long it goes on, in the same intervals
    MaxLogged,      \* how many communications are logged
    MaxSuggestions  \* how many suggestions are made

ASSUME SuggestionsAssumption ==
    /\ PerRun \in Nat \ {0} /\ KeepRuns \in Nat \ {0}
    /\ FirstLookback \in Nat /\ MaxHour \in Nat /\ MaxLogged \in Nat
    /\ MaxSuggestions \in Nat

VARIABLES
    hour,      \* the time, in the intervals between runs
    log,       \* the communications, in the order of created_at
    runs,      \* the BackgroundRuns, in the order they were queued
    under,     \* what each worker's run read, and what is left to ask about
    reviewed,  \* communications that the model was asked about
    offers,    \* the TaskSuggestions
    desk,      \* the suggestion a request of staff has found pending
    excused    \* ghost: communications a run passed over for a reason named below

runVars == <<hour, log, runs, under, reviewed, excused>>
offerVars == <<offers, desk>>
suggestVars == <<runVars, offerVars>>

----------------------------------------------------------------------------
LogIds == 1..Len(log)
RunIds == 1..Len(runs)
OfferIds == 1..Len(offers)

NoRun == [run |-> 0, since |-> 0, until |-> 0, seen |-> {}, items |-> {}, left |-> {}]
NoDesk == [offer |-> 0, accepts |-> FALSE]

SuggestTypeOK ==
    /\ hour \in 1..MaxHour
    /\ log \in Seq([at : 1..MaxHour, seen : BOOLEAN])
    /\ runs \in Seq([status : {"queued", "running", "succeeded", "failed"}, kept : BOOLEAN,
                     created : 1..MaxHour, cursor : 0..MaxHour, finished : 0..MaxHour])
    /\ under \in [Runners -> [run : 0..Len(runs), since : 0..MaxHour, until : 0..MaxHour,
                              seen : SUBSET LogIds, items : SUBSET LogIds,
                              left : SUBSET LogIds]]
    /\ reviewed \subseteq LogIds /\ excused \subseteq LogIds
    /\ offers \in Seq([about : {0} \cup LogIds, tasks : 0..Cardinality(Reviewers),
                       crossed : BOOLEAN,
                       status : {"pending", "accepted", "dismissed", "expired"}])
    /\ desk \in [Reviewers -> [offer : 0..Len(offers), accepts : BOOLEAN]]

Hour ==
    /\ hour < MaxHour
    /\ hour' = hour + 1
    /\ UNCHANGED <<log, runs, under, reviewed, excused, offerVars>>

\* A communication is logged, unseen while its transaction is open or it has no contact.
\* No two moments of the clock are the same: a run's own moment is past.
Log ==
    /\ Len(log) < MaxLogged
    /\ \A w \in Runners : under[w].until < hour
    /\ \A i \in RunIds : runs[i].cursor < hour
    /\ \E seen \in BOOLEAN : log' = Append(log, [at |-> hour, seen |-> seen])
    /\ UNCHANGED <<hour, runs, under, reviewed, excused, offerVars>>

Appear(c) ==
    /\ ~log[c].seen
    /\ log' = [log EXCEPT ![c].seen = TRUE]
    /\ UNCHANGED <<hour, runs, under, reviewed, excused, offerVars>>

----------------------------------------------------------------------------
(* The runs. *)

Kept == {i \in RunIds : runs[i].kept}

\* run_is_due: the last run's interval is over; one still queued or running is taken for
\* abandoned after as long.
RunIsDue == \A i \in Kept : runs[i].created < hour

\* The newest KEEP_RUNS are kept, whatever became of them.
Newest(ids) == {i \in ids : Cardinality({j \in ids : j >= i}) <= KeepRuns}

QueueDue ==
    /\ RunIsDue
    /\ LET new == Append(runs, [status |-> "queued", kept |-> TRUE, created |-> hour,
                                cursor |-> 0, finished |-> 0])
           stay == Newest(Kept \cup {Len(new)})
       IN runs' = [i \in 1..Len(new) |-> [new[i] EXCEPT !.kept = i \in stay]]
    /\ UNCHANGED <<hour, log, under, reviewed, excused, offerVars>>

Successes == {i \in Kept : runs[i].status = "succeeded"}

\* last_cursor: of the run that succeeded last, by finished_at; 0 when there is none.
LastCursors ==
    IF Successes = {} THEN {0}
    ELSE {runs[i].cursor : i \in {i \in Successes :
             \A j \in Successes : runs[j].finished <= runs[i].finished}}

\* new_communications: what may be shared and has a contact, after the cursor, oldest
\* first, and no more than PER_RUN.
Window(since) == {c \in LogIds : log[c].seen /\ log[c].at > since /\ log[c].at <= hour}
Oldest(comms) == {c \in comms : Cardinality({d \in comms : d <= c}) <= PerRun}

\* Slip: the next run starts at this one's time, full or not.
NextCursorNow(since) == hour

\* Where the next run starts: at the last one reviewed, when there was more.
NextCursor(since) ==
    IF Cardinality(Window(since)) > PerRun THEN log[Max(Oldest(Window(since)))].at ELSE hour

\* expire, on each run: two weeks are longer than this instance; any pending one may be due.
Expired(due) ==
    [o \in OfferIds |-> IF o \in due /\ offers[o].status = "pending"
                        THEN [offers[o] EXCEPT !.status = "expired"] ELSE offers[o]]

ExpireDue(due) == offers' = Expired(due) /\ UNCHANGED <<runVars, desk>>

\* run_background takes up a queued run; without a cursor it looks FIRST_LOOKBACK back, and
\* what is older is not reviewed.
BeginRun(w, i) ==
    /\ under[w].run = 0
    /\ runs[i].kept /\ runs[i].status = "queued"
    /\ runs' = [runs EXCEPT ![i].status = "running"]
    /\ \E cursor \in LastCursors :
         LET since == IF cursor # 0 THEN cursor
                      ELSE IF hour > FirstLookback THEN hour - FirstLookback ELSE 0 IN
         /\ under' = [under EXCEPT ![w] =
               [run |-> i, since |-> since, until |-> NextCursor(since),
                seen |-> {c \in LogIds : log[c].seen},
                items |-> Oldest(Window(since)), left |-> Oldest(Window(since))]]
         /\ excused' = IF cursor # 0 THEN excused
                       ELSE excused \cup {c \in LogIds : log[c].at <= since}
    /\ \E due \in {{}, OfferIds} : offers' = Expired(due)
    /\ UNCHANGED <<hour, log, reviewed, desk>>

\* suggest_for: the model is asked about one group; what it suggests is not made again.
IsRepeat(c) == \E o \in OfferIds : offers[o].about = c

Review(w, c) ==
    /\ c \in under[w].left
    /\ under' = [under EXCEPT ![w].left = @ \ {c}]
    /\ reviewed' = reviewed \cup {c}
    /\ \/ UNCHANGED offers
       \/ /\ ~IsRepeat(c)
          /\ Len(offers) < MaxSuggestions
          /\ offers' = Append(offers, [about |-> c, tasks |-> 0, crossed |-> FALSE,
                                       status |-> "pending"])
    /\ UNCHANGED <<hour, log, runs, excused, desk>>

\* run.save(): the whole row, back again if it was deleted meanwhile.
Closed(i, status, cursor) ==
    [runs EXCEPT ![i] = [@ EXCEPT !.status = status, !.kept = TRUE, !.cursor = cursor,
                                  !.finished = hour]]

\* What was not seen when the run read, or has the moment of the last one it reviewed.
PassedOver(work) ==
    {c \in LogIds : /\ log[c].at > work.since /\ log[c].at <= work.until
                    /\ c \notin work.seen \/ (c \notin work.items /\ log[c].at = work.until)}

Succeed(w) ==
    /\ under[w].run # 0 /\ under[w].left = {}
    /\ runs' = Closed(under[w].run, "succeeded", under[w].until)
    /\ excused' = excused \cup PassedOver(under[w])
    /\ under' = [under EXCEPT ![w] = NoRun]
    /\ UNCHANGED <<hour, log, reviewed, offerVars>>

\* AIUnavailable (the feature or the connection is off, the model did not answer) or any
\* error: the cursor stays where it is.
Fail(w) ==
    /\ under[w].run # 0
    /\ runs' = Closed(under[w].run, "failed", 0)
    /\ under' = [under EXCEPT ![w] = NoRun]
    /\ UNCHANGED <<hour, log, reviewed, excused, offerVars>>

\* The worker stops: the run stays queued or running.
StopRun(w) ==
    /\ under[w].run # 0
    /\ under' = [under EXCEPT ![w] = NoRun]
    /\ UNCHANGED <<hour, log, runs, reviewed, excused, offerVars>>

----------------------------------------------------------------------------
(* The decisions. *)

\* pending_suggestion, for suggestion_accept or suggestion_dismiss: nothing locks it.
FindPending(p, o, accepts) ==
    /\ desk[p].offer = 0
    /\ offers[o].status = "pending"
    /\ desk' = [desk EXCEPT ![p] = [offer |-> o, accepts |-> accepts]]
    /\ offers' = [offers EXCEPT ![o].crossed = @ \/ \E q \in Reviewers : desk[q].offer = o]
    /\ UNCHANGED runVars

\* Slip: the task is made and the suggestion stays pending.
KeepOpen(p) ==
    /\ desk[p].offer # 0
    /\ offers' = [offers EXCEPT ![desk[p].offer].tasks = IF desk[p].accepts THEN @ + 1 ELSE @]
    /\ desk' = [desk EXCEPT ![p] = NoDesk]
    /\ UNCHANGED runVars

\* The task and the decision in one transaction; the decision of a request that found it
\* pending stands, whatever came between.
DecideOffer(p) ==
    /\ desk[p].offer # 0
    /\ LET o == offers[desk[p].offer] IN
       offers' = [offers EXCEPT ![desk[p].offer] =
          [o EXCEPT !.status = IF desk[p].accepts THEN "accepted" ELSE "dismissed",
                    !.tasks = IF desk[p].accepts THEN o.tasks + 1 ELSE o.tasks]]
    /\ desk' = [desk EXCEPT ![p] = NoDesk]
    /\ UNCHANGED runVars

----------------------------------------------------------------------------
\* Staff decide on a suggestion that is there, in an instance of their own.
SuggestInit ==
    /\ hour = 1
    /\ log = << >> /\ runs = << >>
    /\ offers \in {<< >>, <<[about |-> 0, tasks |-> 0, crossed |-> FALSE,
                             status |-> "pending"]>>}
    /\ under = [w \in Runners |-> NoRun]
    /\ desk = [p \in Reviewers |-> NoDesk]
    /\ reviewed = {} /\ excused = {}

RunsNext ==
    \/ Hour \/ Log \/ QueueDue
    \/ \E c \in LogIds : Appear(c)
    \/ \E w \in Runners :
          \/ \E i \in RunIds : BeginRun(w, i)
          \/ \E c \in LogIds : Review(w, c)
          \/ Succeed(w) \/ Fail(w) \/ StopRun(w)

OffersNext ==
    \/ \E due \in SUBSET OfferIds : ExpireDue(due)
    \/ \E p \in Reviewers :
          \/ \E o \in OfferIds, accepts \in BOOLEAN : FindPending(p, o, accepts)
          \/ DecideOffer(p)

SuggestSpec == SuggestInit /\ [][RunsNext \/ OffersNext]_suggestVars

----------------------------------------------------------------------------
\* No communication that can be seen lies behind the place where the next run starts
\* without having been reviewed, through failures, restarts and runs that overlap
\* (suggest's cursor), but for one that was not seen in time, that has the very moment of
\* the last of a full run, or that was too old when no run's cursor was kept.
NothingBehind ==
    \A c \in LogIds :
        log[c].seen /\ c \notin reviewed \cup excused =>
            \A cursor \in LastCursors : log[c].at > cursor

\* A suggestion makes one task when it is accepted and none otherwise, unless two requests
\* had it open at once (suggestion_accept, suggestion_dismiss).
OneTaskEach ==
    \A o \in OfferIds :
        /\ offers[o].tasks <= 1 \/ offers[o].crossed
        /\ offers[o].status = "accepted" => offers[o].tasks >= 1
        /\ offers[o].tasks = 0 \/ offers[o].status = "accepted" \/ offers[o].crossed

\* Every communication is reviewed, and every suggestion decided once (suggestions.py).
SuggestionsInOrder == NothingBehind /\ OneTaskEach

----------------------------------------------------------------------------
\* Memos

CONSTANTS
    Drafters,   \* worker processes that draft
    Askers,     \* requests of staff for a memo
    MaxFacts,   \* how often the records change
    MaxAsks     \* how often staff ask

ASSUME MemosAssumption == MaxFacts \in Nat \ {0} /\ MaxAsks \in Nat

VARIABLES
    facts,   \* the version of the records a memo is drafted from
    turned,  \* whether the feature is on and its connection chosen
    memo,    \* the ConsultMemo
    asking,  \* each request of staff: whether it found that no memo is being prepared
    asks,    \* how often staff asked
    queued,  \* prepare_memo tasks in the queue
    draft,   \* each worker: its draft, the records and the memo as it read them
    best,    \* ghost: the newest records a memo was drafted from
    ended,   \* ghost: a request, a run or a worker ended between two of its writes, or the
             \* person who asked is gone
    met      \* ghost: two drafts of the memo were under way at once

memoVars == <<facts, turned, memo, asking, asks, queued, draft, best, ended, met>>

----------------------------------------------------------------------------
\* body and digest name the version of the records the memo was drafted from; 0 is none.
NoMemo == [status |-> "none", body |-> 0, digest |-> 0, error |-> FALSE, recent |-> FALSE]
NewMemo == [NoMemo EXCEPT !.status = "preparing", !.recent = TRUE]
NoDraft == [step |-> "idle", asked |-> FALSE, records |-> 0, body |-> 0]

MemoTypeOK ==
    /\ facts \in 1..MaxFacts
    /\ turned \in BOOLEAN
    /\ memo \in [status : {"none", "preparing", "ready", "failed"}, body : 0..MaxFacts,
                 digest : 0..MaxFacts, error : BOOLEAN, recent : BOOLEAN]
    /\ asking \in [Askers -> BOOLEAN]
    /\ asks \in 0..MaxAsks
    /\ queued \in 0..MaxAsks
    /\ draft \in [Drafters -> [step : {"idle", "ask", "wait"}, asked : BOOLEAN,
                               records : 0..MaxFacts, body : 0..MaxFacts]]
    /\ best \in 0..MaxFacts /\ ended \in BOOLEAN /\ met \in BOOLEAN

ChangeFacts ==
    /\ facts < MaxFacts
    /\ facts' = facts + 1
    /\ UNCHANGED <<turned, memo, asking, asks, queued, draft, best, ended, met>>

\* AI is turned on or off, for the firm or for the feature, or the background connection
\* is chosen or gone.
SwitchAI ==
    /\ turned' = ~turned
    /\ UNCHANGED <<facts, memo, asking, asks, queued, draft, best, ended, met>>

\* An hour passes since the memo was saved: STALE_AFTER, RETRY_AFTER.
HourPasses ==
    /\ memo.recent
    /\ memo' = [memo EXCEPT !.recent = FALSE]
    /\ UNCHANGED <<facts, turned, asking, asks, queued, draft, best, ended, met>>

Saved(row) == memo' = [row EXCEPT !.recent = TRUE]

----------------------------------------------------------------------------
(* Staff ask for a memo. *)

IsPreparing == memo.status = "preparing" /\ memo.recent

\* consult_memo_prepare makes the memo when there is none, and otherwise looks whether it
\* is being prepared.
LookFirst(p) ==
    /\ ~asking[p] /\ asks < MaxAsks
    /\ turned
    /\ memo.status = "none" \/ ~IsPreparing
    /\ asks' = asks + 1
    /\ asking' = [asking EXCEPT ![p] = TRUE]
    /\ IF memo.status = "none" THEN Saved(NewMemo) ELSE UNCHANGED memo
    /\ UNCHANGED <<facts, turned, queued, draft, best, ended, met>>

\* Its status and the task in one transaction.
AskForMemo(p) ==
    /\ asking[p]
    /\ Saved([memo EXCEPT !.status = "preparing", !.error = FALSE])
    /\ queued' = queued + 1
    /\ asking' = [asking EXCEPT ![p] = FALSE]
    /\ UNCHANGED <<facts, turned, asks, draft, best, ended, met>>

----------------------------------------------------------------------------
(* Drafts. *)

Drafting == {w \in Drafters : draft[w].step # "idle"}

\* prepare reads the records, and the memo's row or makes it.
BeginDraft(w, asked) ==
    /\ draft' = [draft EXCEPT ![w] =
          [step |-> "ask", asked |-> asked, records |-> facts, body |-> memo.body]]
    /\ IF memo.status = "none" THEN Saved(NewMemo) ELSE UNCHANGED memo
    /\ met' = (met \/ Drafting # {})
    /\ UNCHANGED <<facts, turned, asking, asks, best, ended>>

\* needs_memo: there is none, an earlier try failed an hour ago, or the records changed
\* since; not while it is being prepared.
NeedsMemo ==
    \/ memo.status = "none"
    \/ /\ ~IsPreparing
       /\ IF memo.status = "failed" \/ memo.error THEN ~memo.recent ELSE memo.digest # facts

\* prepare_due, in a run that found the feature on.
DraftDue(w) ==
    /\ draft[w] = NoDraft
    /\ turned
    /\ NeedsMemo
    /\ BeginDraft(w, FALSE)
    /\ UNCHANGED queued

\* prepare_memo; when the person is not active any more the memo says so.
DraftAsked(w) ==
    /\ draft[w] = NoDraft
    /\ queued > 0
    /\ queued' = queued - 1
    /\ \/ BeginDraft(w, TRUE)
       \/ /\ Saved([memo EXCEPT !.status = "failed", !.error = TRUE])
          /\ ended' = TRUE
          /\ UNCHANGED <<facts, turned, asking, asks, draft, best, met>>

\* generate asks the model, which takes its time.
AskModel(w) ==
    /\ draft[w].step = "ask"
    /\ turned
    /\ draft' = [draft EXCEPT ![w].step = "wait"]
    /\ UNCHANGED <<facts, turned, memo, asking, asks, queued, best, ended, met>>

\* The whole row, drafted from the records that were read.
SaveMemo(w) ==
    /\ draft[w].step = "wait"
    /\ Saved([memo EXCEPT !.status = "ready", !.body = draft[w].records,
                          !.digest = draft[w].records, !.error = FALSE])
    /\ draft' = [draft EXCEPT ![w] = NoDraft]
    /\ best' = IF draft[w].records > best THEN draft[w].records ELSE best
    /\ UNCHANGED <<facts, turned, asking, asks, queued, ended, met>>

\* Slip: a draft that fails says nothing of the one before.
StatusFailed(w) == "failed"

\* An earlier memo, of the row that was read, stays with the error.
StatusAfter(w) == IF draft[w].body # 0 THEN "ready" ELSE "failed"

\* AIUnavailable: the feature is off, nothing was sent, no usable answer.
FailMemo(w) ==
    /\ draft[w].step # "idle"
    /\ Saved([memo EXCEPT !.status = StatusAfter(w), !.error = TRUE])
    /\ draft' = [draft EXCEPT ![w] = NoDraft]
    /\ UNCHANGED <<facts, turned, asking, asks, queued, best, ended, met>>

\* Any other error: prepare_memo records it on the memo, a run only on the run.
BreakDraft(w) ==
    /\ draft[w].step # "idle"
    /\ IF draft[w].asked
       THEN memo' = [memo EXCEPT !.status = "failed", !.error = TRUE]
       ELSE UNCHANGED memo
    /\ ended' = TRUE
    /\ draft' = [draft EXCEPT ![w] = NoDraft]
    /\ UNCHANGED <<facts, turned, asking, asks, queued, best, met>>

\* A request or a worker goes away.
Vanish ==
    /\ \/ \E p \in Askers : /\ asking[p] /\ asking' = [asking EXCEPT ![p] = FALSE]
                            /\ UNCHANGED draft
       \/ \E w \in Drafting : /\ draft' = [draft EXCEPT ![w] = NoDraft]
                              /\ UNCHANGED asking
    /\ ended' = TRUE
    /\ UNCHANGED <<facts, turned, memo, asks, queued, best, met>>

----------------------------------------------------------------------------
MemoInit ==
    /\ facts = 1 /\ turned = TRUE
    /\ memo = NoMemo
    /\ asking = [p \in Askers |-> FALSE] /\ asks = 0 /\ queued = 0
    /\ draft = [w \in Drafters |-> NoDraft]
    /\ best = 0 /\ ended = FALSE /\ met = FALSE

MemoNext ==
    \/ ChangeFacts \/ SwitchAI \/ HourPasses \/ Vanish
    \/ \E p \in Askers : LookFirst(p) \/ AskForMemo(p)
    \/ \E w \in Drafters :
          \/ DraftDue(w) \/ DraftAsked(w) \/ AskModel(w)
          \/ SaveMemo(w) \/ FailMemo(w) \/ BreakDraft(w)

MemoSpec == MemoInit /\ [][MemoNext]_memoVars

----------------------------------------------------------------------------
\* A memo that says it is being prepared is: a request, a task or a draft is at it, unless
\* one of them went away (is_preparing, prepare_memo).
PreparingIsPrepared ==
    memo.status = "preparing" =>
        ended \/ queued > 0 \/ Drafting # {} \/ \E p \in Askers : asking[p]

\* "If drafting again fails, the earlier memo is kept and the error shown with it"
\* (prepare): a memo that is shown as ready has a body, one with a body is not shown as
\* failed, and the body is of the newest draft, unless two drafts met or one broke off.
EarlierIsKept ==
    /\ memo.status = "ready" => memo.body # 0
    /\ memo.status = "failed" => memo.body = 0 \/ met \/ ended
    /\ memo.body = best \/ met

\* A memo is as its last good draft left it (memos.py).
MemosKept == PreparingIsPrepared /\ EarlierIsKept
=============================================================================
