------------------------------- MODULE MCOffice -------------------------------
(***************************************************************************)
(* Small instances of parts that share no state, checked in one run:       *)
(* the initial state chooses the part that moves, and the others rest.     *)
(***************************************************************************)
EXTENDS CaseFile, Notices, Workflows, Drafts, Assistant, Imports, ApiAccess,
        ApiSync, BackgroundAI, FrontDesk, Translations, Announcements, TLC

CONSTANTS w1, w2

VARIABLE part

allVars == <<part, caseVars, fileVars, numberVars, noticeVars, flowVars, draftVars, talkVars, importVars,
             accessVars, syncVars, suggestVars, memoVars, intakeVars,
             timerVars, translateVars, tellVars>>

\* The matters of the other system are this contact's.
FirstClient == CHOOSE c \in Clients : TRUE

Init ==
    /\ part \in {"status", "file", "number", "notice", "workflow", "draft", "talk", "import",
                 "migration", "access", "poll", "post", "suggest", "offer", "memo",
                 "intake", "time", "setup", "translation", "event", "gift"}
    /\ ImportsInit
    /\ provider.client = [m \in OldMatters |-> FirstClient]
    /\ part = "import" =>
          /\ provider.contacts = {FirstClient} /\ provider.there = OldMatters
          /\ provider.companies = {}
          /\ provider.parties = [m \in OldMatters |-> {}]
          /\ \A c \in Clients : provider.keys[c] # {} <=> c = FirstClient
          /\ \A p \in people : p.keys \in {{"phone"}, Keys}
    /\ part = "migration" =>
          /\ Cardinality(provider.companies) <= 1
          /\ provider.keys[FirstClient] = {"email"}
          /\ \A c \in Clients : Cardinality(provider.keys[c]) = 1
    /\ part # "import" => people = {} /\ provider.contacts = {} /\ provider.there = {}
    /\ part \notin {"import", "migration"} =>
          /\ provider.keys = [c \in Clients |-> {}]
          /\ provider.companies = {} /\ provider.parties = [m \in OldMatters |-> {}]
    /\ CaseInit /\ CaseFileInit /\ MatterNumbersInit /\ NoticesInit /\ WorkflowsInit
    /\ DraftsInit /\ TalkInit /\ AccessInit /\ SyncInit
    /\ SuggestInit /\ MemoInit /\ IntakeInit /\ TimersInit /\ TranslationsInit
    /\ AnnouncementsInit
    /\ part = "offer" <=> offers # << >>
    /\ part # "access" => channel = "api"
    /\ part # "setup" => firm
    /\ part = "gift" => sort = "work_item"
    /\ part = "event" => record.to = NoColleague
    /\ part \notin {"event", "gift"} => sort = "contact" /\ record = NoRecord

\* Nothing is claimed of what is imported once two imports were saved side by side: such a
\* behaviour is followed no further.
Next ==
    /\ ~beside
    /\ UNCHANGED part
    /\ IF part = "status" THEN CaseNext ELSE UNCHANGED caseVars
    /\ IF part = "file" THEN CaseFileNext ELSE UNCHANGED fileVars
    /\ IF part = "number" THEN MatterNumbersNext ELSE UNCHANGED numberVars
    /\ IF part = "notice" THEN NoticesNext ELSE UNCHANGED noticeVars
    /\ IF part = "workflow" THEN WorkflowsNext ELSE UNCHANGED flowVars
    /\ IF part = "draft" THEN DraftsNext ELSE UNCHANGED draftVars
    /\ IF part = "talk" THEN TalkNext ELSE UNCHANGED talkVars
    /\ IF part = "import" THEN ImportsNext
       ELSE IF part = "migration" THEN MigrationNext ELSE UNCHANGED importVars
    /\ IF part = "access" THEN AccessNext ELSE UNCHANGED accessVars
    /\ IF part = "poll" THEN PollNext
       ELSE IF part = "post" THEN PostNext ELSE UNCHANGED syncVars
    /\ IF part = "suggest" THEN RunsNext
       ELSE IF part = "offer" THEN OffersNext ELSE UNCHANGED suggestVars
    /\ IF part = "memo" THEN MemoNext ELSE UNCHANGED memoVars
    /\ IF part = "intake" THEN IntakeNext ELSE UNCHANGED intakeVars
    /\ IF part = "time" THEN TimeNext
       ELSE IF part = "setup" THEN SetupNext ELSE UNCHANGED timerVars
    /\ IF part = "translation" THEN TranslationsNext ELSE UNCHANGED translateVars
    /\ IF part = "event" THEN EventsNext
       ELSE IF part = "gift" THEN GiftsNext ELSE UNCHANGED tellVars

Spec == Init /\ [][Next]_allVars

\* The part that moves keeps its type.
TypeOK ==
    /\ part = "status" => CaseTypeOK
    /\ part = "file" => CaseFileTypeOK
    /\ part = "number" => MatterNumbersTypeOK
    /\ part = "notice" => NoticesTypeOK
    /\ part = "workflow" => WorkflowsTypeOK
    /\ part = "draft" => DraftsTypeOK
    /\ part = "talk" => TalkTypeOK
    /\ part \in {"import", "migration"} => ImportsTypeOK
    /\ part = "access" => AccessTypeOK
    /\ part \in {"poll", "post"} => SyncTypeOK
    /\ part \in {"suggest", "offer"} => SuggestTypeOK
    /\ part = "memo" => MemoTypeOK
    /\ part = "intake" => IntakeTypeOK
    /\ part \in {"time", "setup"} => TimersTypeOK
    /\ part = "translation" => TranslationsTypeOK
    /\ part \in {"event", "gift"} => AnnouncementsTypeOK


\* What a provider or the office says of a case is acted on: the status changes that need
\* it are reviewed (record_status), and a notice has its deadline (sync_deadline); and a
\* change of a record is announced, and told to who is given it (emit, notify).
OfficeIsTold == ChangesReviewed /\ DeadlineFollowsNotice /\ EventsTold /\ GiftsTold

\* What AI models do for the office stays in the order the office decided it: the
\* assistant's changes (Assistant), suggested tasks and memos (BackgroundAI) and
\* translations (Translations).
AIInOrder == ActsAsDecided /\ SuggestionsInOrder /\ MemosKept /\ TranslationsKept

\* What a record says: two texts, and three once it has grown.
Sizes == << <<1, 2>>, <<2, 1, 1>> >>

\* The requests and tasks may be exchanged.
Symmetry == Permutations({w1, w2})
=============================================================================
