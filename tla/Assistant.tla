------------------------------ MODULE Assistant ------------------------------
(***************************************************************************)
(* A conversation with the assistant (crm/ai/assistant.py, jobs.py,        *)
(* feature_views.py): the owner's requests send messages and decide the    *)
(* changes the model proposes, and worker tasks ask the model, run its     *)
(* lookups and leave its changes waiting.  The provider wants the answer   *)
(* to every call before it is asked again.                                 *)
(***************************************************************************)
EXTENDS Naturals, FiniteSets

CONSTANTS
    Calls,      \* tool calls the model may make
    Changes,    \* those of them that are WRITE_TOOLS
    Tabs,       \* requests of the conversation's owner
    Answerers,  \* answer tasks the workers may have in hand at once
    MaxRounds,  \* MAX_ROUNDS
    MaxSends    \* bound on the messages sent

ASSUME AssistantAssumption == Changes \subseteq Calls /\ MaxRounds \in Nat /\ MaxSends \in Nat

VARIABLES
    talk,    \* the conversation's status; whether it was saved lately
    call,    \* each call: not made, without a message, answered, waiting, decided
    done,    \* how often each change was made in the CRM
    tab,     \* each request: what it is about to do
    turn,    \* each task: its step, the round's calls, those to answer, the requests left
    tasks,   \* answer tasks queued
    sends,   \* messages sent
    died,    \* a task ended between two of its writes
    clash    \* two requests, or two tasks, acted at once on what both had looked at

talkVars == <<talk, call, done, tab, turn, tasks, sends, died, clash>>

NoTab == [step |-> "idle", of |-> "none", confirm |-> FALSE, last |-> FALSE]
NoTurn == [step |-> "idle", calls |-> {}, todo |-> {}, rounds |-> 0]

TalkTypeOK ==
    /\ talk \in [status : {"ready", "working", "waiting"}, fresh : BOOLEAN]
    /\ call \in [Calls -> {"none", "asked", "answered", "waiting", "confirmed", "declined"}]
    /\ done \in [Changes -> 0..Cardinality(Tabs)]
    /\ tab \in [Tabs -> [step : {"idle", "send", "read", "save"}, of : Calls \cup {"none"},
                         confirm : BOOLEAN, last : BOOLEAN]]
    /\ turn \in [Answerers -> [step : {"idle", "ask", "answer"}, calls : SUBSET Calls,
                               todo : SUBSET Calls, rounds : 0..MaxRounds]]
    /\ tasks \in 0..MaxSends + Cardinality(Tabs) * Cardinality(Changes)
    /\ sends \in 0..MaxSends
    /\ died \in BOOLEAN /\ clash \in BOOLEAN

----------------------------------------------------------------------------
Waits(c) == call[c] = "waiting"
InTurn == {a \in Answerers : turn[a].step # "idle"}
Working == talk.status = "working" /\ talk.fresh
Start == [status |-> "working", fresh |-> TRUE]

\* conversation_send looks at the status and at the changes, then writes.
CheckSend(t) ==
    /\ tab[t] = NoTab
    /\ sends + Cardinality({u \in Tabs : tab[u].step = "send"}) < MaxSends
    /\ ~Working
    /\ \A c \in Calls : ~Waits(c)
    /\ tab' = [tab EXCEPT ![t].step = "send"]
    /\ clash' = (clash \/ tasks > 0 \/ InTurn # {} \/ \E u \in Tabs : tab[u].step = "send")
    /\ UNCHANGED <<talk, call, done, turn, tasks, sends, died>>

Send(t) ==
    /\ tab[t].step = "send"
    /\ sends' = sends + 1
    /\ tasks' = tasks + 1
    /\ talk' = Start
    /\ tab' = [tab EXCEPT ![t] = NoTab]
    /\ UNCHANGED <<call, done, turn, died, clash>>

\* Slip: a change is found by its key, decided or not.
OpenAnyDecision(t, c, confirm) ==
    /\ tab[t] = NoTab
    /\ c \in Changes /\ call[c] \in {"waiting", "confirmed", "declined"}
    /\ tab' = [tab EXCEPT ![t] = [NoTab EXCEPT !.step = "read", !.of = c, !.confirm = confirm]]
    /\ clash' = (clash \/ InTurn # {} \/ \E u \in Tabs : tab[u].of = c)
    /\ UNCHANGED <<talk, call, done, turn, tasks, sends, died>>

\* conversation_decide finds only a waiting change.
OpenDecision(t, c, confirm) ==
    /\ tab[t] = NoTab
    /\ c \in Changes /\ Waits(c)
    /\ tab' = [tab EXCEPT ![t] = [NoTab EXCEPT !.step = "read", !.of = c, !.confirm = confirm]]
    /\ clash' = (clash \/ InTurn # {} \/ \E u \in Tabs : tab[u].of = c)
    /\ UNCHANGED <<talk, call, done, turn, tasks, sends, died>>

\* decide: the changes other transactions have decided and not committed still wait.
NothingElseWaits(c) == \A d \in Calls \ {c} : ~Waits(d)

Decide(t) ==
    /\ tab[t].step = "read"
    /\ tab' = [tab EXCEPT ![t].step = "save", ![t].last = NothingElseWaits(tab[t].of)]
    /\ UNCHANGED <<talk, call, done, turn, tasks, sends, died, clash>>

\* The decision, what the tool did, and the next turn commit together.
CommitDecision(t) ==
    LET c == tab[t].of IN
    /\ tab[t].step = "save"
    /\ call' = [call EXCEPT ![c] = IF tab[t].confirm THEN "confirmed" ELSE "declined"]
    /\ done' = IF tab[t].confirm THEN [done EXCEPT ![c] = @ + 1] ELSE done
    /\ IF tab[t].last THEN tasks' = tasks + 1 /\ talk' = Start ELSE UNCHANGED <<tasks, talk>>
    /\ tab' = [tab EXCEPT ![t] = NoTab]
    /\ UNCHANGED <<turn, sends, died, clash>>

\* The feature is off, or the form not valid.
GiveUp(t) ==
    /\ tab[t].step \in {"send", "read"}
    /\ tab' = [tab EXCEPT ![t] = NoTab]
    /\ UNCHANGED <<talk, call, done, turn, tasks, sends, died, clash>>

----------------------------------------------------------------------------
\* Slip: one request too many.
RoundsAndOne == MaxRounds + 1

Rounds == MaxRounds

\* jobs.answer takes a conversation that is being worked on.
TakeTurn(a) ==
    /\ tasks > 0 /\ turn[a] = NoTurn
    /\ tasks' = tasks - 1
    /\ IF talk.status = "working"
       THEN /\ turn' = [turn EXCEPT ![a] = [NoTurn EXCEPT !.step = "ask", !.rounds = Rounds]]
            /\ clash' = (clash \/ InTurn # {})
       ELSE UNCHANGED <<turn, clash>>
    /\ UNCHANGED <<talk, call, done, tab, sends, died>>

\* finish
Finish(a, status) ==
    /\ turn' = [turn EXCEPT ![a] = NoTurn]
    /\ talk' = [status |-> status, fresh |-> TRUE]

\* respond: the model answers, or calls tools; its message is saved first.
Ask(a, new) ==
    /\ turn[a].step = "ask" /\ turn[a].rounds > 0
    /\ \A c \in new : call[c] = "none"
    /\ call' = [c \in Calls |-> IF c \in new THEN "asked" ELSE call[c]]
    /\ IF new = {} THEN Finish(a, "ready")
       ELSE /\ turn' = [turn EXCEPT ![a] = [step |-> "answer", calls |-> new, todo |-> new,
                                            rounds |-> @.rounds - 1]]
            /\ UNCHANGED talk
    /\ UNCHANGED <<done, tab, tasks, sends, died, clash>>

\* AIUnavailable, or MAX_ROUNDS requests without an answer.
EndAsking(a) ==
    /\ turn[a].step = "ask"
    /\ Finish(a, "ready")
    /\ UNCHANGED <<call, done, tab, tasks, sends, died, clash>>

\* A lookup is run at once, a change waits; a turn with a change in it ends there.
AnswerCall(a, c) ==
    /\ c \in turn[a].todo
    /\ call' = [call EXCEPT ![c] = IF c \in Changes THEN "waiting" ELSE "answered"]
    /\ turn' = [turn EXCEPT ![a].todo = @ \ {c}]
    /\ UNCHANGED <<talk, done, tab, tasks, sends, died, clash>>

EndRound(a) ==
    /\ turn[a].step = "answer" /\ turn[a].todo = {}
    /\ IF turn[a].calls \cap Changes # {}
       THEN Finish(a, "waiting")
       ELSE turn' = [turn EXCEPT ![a].step = "ask"] /\ UNCHANGED talk
    /\ UNCHANGED <<call, done, tab, tasks, sends, died, clash>>

\* The worker goes away.
Die(a) ==
    /\ turn[a].step # "idle"
    /\ turn' = [turn EXCEPT ![a] = NoTurn]
    /\ died' = TRUE
    /\ UNCHANGED <<talk, call, done, tab, tasks, sends, clash>>

\* STALE_AFTER passes.
GoStale ==
    /\ talk.fresh
    /\ talk' = [talk EXCEPT !.fresh = FALSE]
    /\ UNCHANGED <<call, done, tab, turn, tasks, sends, died, clash>>

----------------------------------------------------------------------------
TalkInit ==
    /\ talk = [status |-> "ready", fresh |-> TRUE]
    /\ call = [c \in Calls |-> "none"]
    /\ done = [c \in Changes |-> 0]
    /\ tab = [t \in Tabs |-> NoTab]
    /\ turn = [a \in Answerers |-> NoTurn]
    /\ tasks = 0 /\ sends = 0
    /\ died = FALSE /\ clash = FALSE

TalkNext ==
    \/ \E t \in Tabs :
          \/ CheckSend(t) \/ Send(t) \/ Decide(t) \/ CommitDecision(t) \/ GiveUp(t)
          \/ \E c \in Calls, confirm \in BOOLEAN : OpenDecision(t, c, confirm)
    \/ \E a \in Answerers :
          \/ TakeTurn(a) \/ EndAsking(a) \/ EndRound(a) \/ Die(a)
          \/ \E new \in SUBSET Calls : Ask(a, new)
          \/ \E c \in Calls : AnswerCall(a, c)
    \/ GoStale

TalkSpec == TalkInit /\ [][TalkNext]_talkVars

----------------------------------------------------------------------------
\* Unless a request or a task acts beside another, a change is made once if its owner
\* confirmed it, and never otherwise (assistant.py: "a declined change is not made").
MadeAsDecided ==
    ~clash => \A c \in Changes : done[c] = IF call[c] = "confirmed" THEN 1 ELSE 0

\* Unless one of them does, or a task died in its turn, the model is asked to go on only
\* when every call it made has its answer (respond, decide, conversation_send).
AskedWithAnswers ==
    ~died /\ ~clash =>
        \A a \in Answerers : turn[a].step = "ask" =>
            \A c \in Calls : call[c] \notin {"asked", "waiting"}

\* The assistant acts on its owner's decisions, and on all of them (assistant.py).
ActsAsDecided == MadeAsDecided /\ AskedWithAnswers
=============================================================================
