---------------------------- MODULE ProviderCalls ----------------------------
(***************************************************************************)
(* One outbound action as it reaches a provider: policy.send (crm/connect/ *)
(* policy.py) has the connector perform it through the HTTP client (crm/   *)
(* connect/http.py), which asks again when no answer came or the provider  *)
(* was busy, and records the outcome when the connector is done.  An       *)
(* answer that is lost leaves the provider's work done and the caller none *)
(* the wiser; whoever asked may then ask once more.                        *)
(***************************************************************************)
EXTENDS Naturals, Sequences, FiniteSets

CONSTANTS
    MaxCalls   \* how often the same thing is asked for, after a failure or a crash

ASSUME ProviderCallsAssumption == MaxCalls \in Nat \ {0}

VARIABLES
    use,      \* how the connector asks its provider
    call,     \* the action under way
    things,   \* what the provider has made for the CRM, in order
    unheard,  \* of these, the ones made or sent off in a request with no usable answer
    outbox    \* each call's OutboundRequest, once saved

callVars == <<use, call, things, unheard, outbox>>

----------------------------------------------------------------------------
(* The connectors. *)

\* odd: a good status, but without the ID, or not to be understood.
Answers == {"ok", "odd", "refused", "limited", "unavailable", "broken", "silent"}

\* HTTP 429, 503 and the other 5xx, and no answer in time or no connection.
RetryStatuses == {"limited", "unavailable", "broken"}

\* ProviderClient: so many retries, and the statuses the connector expects and explains
\* itself, which are never asked again.  A meeting or an event is made so when the CRM
\* knows of none yet.
Client(how, retries, reads) == [how |-> how, retries |-> retries, reads |-> reads]

Twilio       == Client("plain", 3, {"refused"})
WhatsApp     == Client("plain", 3, {"refused"})
Dialpad      == Client("plain", 3, {})
Gmail        == Client("plain", 3, {})
GoogleEvent  == Client("plain", 3, {})
OutlookEvent == Client("plain", 3, {})
Zoom         == Client("plain", 3, {"refused", "limited"})
Anthropic    == Client("plain", 3, {})
OpenAI       == Client("plain", 3, {})
OpenRouter   == Client("plain", 3, {})
AIServer     == Client("plain", 3, {})
ChatGPT      == Client("plain", 1, {"refused", "limited", "unavailable"})
DeepL        == Client("plain", 3, {})
CourtListener == Client("plain", 0, {"refused", "limited"})

\* A draft or an envelope is made first and sent off by its ID.
Outlook      == Client("staged", 3, {})
Documenso    == Client("staged", 3, {})

\* The same Idempotency-Key goes with every retry of a request.
Stripe       == Client("keyed", 3, {"refused"})

\* Not through ProviderClient: one attempt.
Mailbox      == Client("once", 0, {})
MailServer   == Client("once", 0, {})
Receiver     == Client("once", 0, {})

Connectors == {Twilio, WhatsApp, Dialpad, Gmail, GoogleEvent, OutlookEvent, Zoom, Anthropic,
               OpenAI, OpenRouter, AIServer, ChatGPT, DeepL, CourtListener, Outlook, Documenso,
               Stripe, Mailbox, MailServer, Receiver}

----------------------------------------------------------------------------
Idle == [at |-> "idle", number |-> 0, tried |-> 0, draft |-> 0, ref |-> 0, result |-> "none"]

ThingIds == 1..Len(things)
OutOf(number) == {i \in ThingIds : things[i].call = number /\ things[i].out}

ProviderCallsTypeOK ==
    /\ use \in Connectors
    /\ call.at \in {"idle", "asking", "done"}
    /\ call.number \in 0..MaxCalls
    /\ call.tried \in 0..3
    /\ call.draft \in 0..Len(things) /\ call.ref \in 0..Len(things)
    /\ call.result \in {"none", "sent", "failed"}
    /\ things \in Seq([call : 1..MaxCalls, key : (1..MaxCalls) \X (0..3),
                       out : BOOLEAN])
    /\ unheard \subseteq ThingIds
    /\ outbox \in Seq([call : 1..MaxCalls, status : {"sent", "failed"}, ref : Nat])

\* policy.send, allowed by the policy; the same thing is asked for again only while no
\* earlier request says it was sent.
Ask ==
    /\ call.at = "idle"
    /\ call.number < MaxCalls
    /\ \A i \in 1..Len(outbox) : outbox[i].status # "sent"
    /\ call' = [Idle EXCEPT !.at = "asking", !.number = call.number + 1]
    /\ UNCHANGED <<use, things, unheard, outbox>>

----------------------------------------------------------------------------
(* The provider. *)

\* Slip: the key is made where the request is sent, so every retry has its own.
KeyOfTry == <<call.number, call.tried>>

\* Stripe's call makes the key before it hands the request to the client.
Key == <<call.number, 0>>

Known(key) == {i \in ThingIds : things[i].key = key}

\* A provider that answers well has done what it was asked; one that refuses has not; one
\* whose answer fails or never comes may have done it.
MayAct(answer, acts) ==
    /\ answer \in {"ok", "odd"} => acts
    /\ answer = "odd" => use.how # "once"
    /\ answer \in {"refused", "limited"} => ~acts

Make(out) == Append(things, [call |-> call.number, key |-> Key, out |-> out])

Hear(answer, i) == unheard' = IF answer = "ok" THEN unheard ELSE unheard \cup {i}

----------------------------------------------------------------------------
(* The client. *)

\* The connector has its outcome.
Finish(result, ref) == [call EXCEPT !.at = "done", !.result = result, !.ref = ref]

\* ProviderClient.request: the statuses in RETRY_STATUSES and silence are asked again, the
\* connector's own and any other failure are not; Retry-After and the pauses between
\* requests only take time.
AskAgain(answer) ==
    /\ answer \in RetryStatuses \cup {"silent"}
    /\ answer \notin use.reads
    /\ call.tried < use.retries

AfterAnswer(answer, made) ==
    IF answer = "ok" THEN made
    ELSE IF AskAgain(answer) THEN [call EXCEPT !.tried = @ + 1]
    ELSE Finish("failed", 0)

\* One request that makes the thing: sent at once, or as a draft.
SendRequest(answer, acts) ==
    /\ call.at = "asking" /\ call.draft = 0
    /\ MayAct(answer, acts)
    /\ IF use.how = "keyed" /\ Known(Key) # {} /\ answer \notin {"refused", "limited"}
       THEN LET i == CHOOSE j \in Known(Key) : TRUE IN
            /\ call' = AfterAnswer(answer, Finish("sent", i))
            /\ UNCHANGED <<things, unheard>>
       ELSE IF acts
       THEN LET new == Len(things) + 1 IN
            /\ things' = Make(use.how # "staged")
            /\ Hear(answer, new)
            /\ call' = AfterAnswer(answer,
                          IF use.how = "staged" THEN [call EXCEPT !.draft = new, !.tried = 0]
                          ELSE Finish("sent", new))
       ELSE /\ call' = AfterAnswer(answer, call)
            /\ UNCHANGED <<things, unheard>>
    /\ UNCHANGED <<use, outbox>>

\* The second request of a staged action; one that was sent off already is not sent again,
\* and the provider may well refuse.
SendOff(answer, acts) ==
    /\ call.at = "asking" /\ call.draft # 0
    /\ IF things[call.draft].out
       THEN ~acts /\ UNCHANGED <<things, unheard>>
       ELSE /\ MayAct(answer, acts)
            /\ IF acts THEN /\ things' = [things EXCEPT ![call.draft].out = TRUE]
                            /\ Hear(answer, call.draft)
               ELSE UNCHANGED <<things, unheard>>
    /\ call' = AfterAnswer(answer, Finish("sent", call.draft))
    /\ UNCHANGED <<use, outbox>>

\* request.save() in policy.send.
Record ==
    /\ call.at = "done"
    /\ outbox' = Append(outbox,
          [call |-> call.number, status |-> call.result, ref |-> call.ref])
    /\ call' = [Idle EXCEPT !.number = call.number]
    /\ UNCHANGED <<use, things, unheard>>

\* The process goes away: no OutboundRequest was saved yet.
LoseCall ==
    /\ call.at # "idle"
    /\ call' = [Idle EXCEPT !.number = call.number]
    /\ UNCHANGED <<use, things, unheard, outbox>>

----------------------------------------------------------------------------
ProviderCallsInit ==
    /\ use \in Connectors
    /\ call = Idle
    /\ things = << >>
    /\ unheard = {}
    /\ outbox = << >>

ProviderCallsNext ==
    \/ Ask \/ Record \/ LoseCall
    \/ \E answer \in Answers, acts \in BOOLEAN :
          SendRequest(answer, acts) \/ SendOff(answer, acts)

ProviderCallsSpec == ProviderCallsInit /\ [][ProviderCallsNext]_callVars

----------------------------------------------------------------------------
\* What is recorded as sent was done, under the reference that is kept (policy.send).
SentWasDone ==
    \A i \in 1..Len(outbox) :
        outbox[i].status = "sent" =>
            outbox[i].ref \in ThingIds /\ outbox[i].ref \in OutOf(outbox[i].call)

\* What is recorded as failed was not done, but for an answer that never came or could not
\* be used (policy.send, ProviderClient.request).
FailedWasNot ==
    \A i \in 1..Len(outbox) :
        outbox[i].status = "failed" => OutOf(outbox[i].call) \subseteq unheard

\* The client's retries repeat an action only over a lost answer, no more often than it
\* retries, and never one that is keyed, staged or tried once.
DoneOnce ==
    \A number \in 1..call.number :
        /\ Cardinality(OutOf(number) \ unheard) <= 1
        /\ Cardinality(OutOf(number)) <= IF use.how = "plain" THEN use.retries + 1 ELSE 1

\* What is recorded of a call is what became of it (policy.py, http.py).
DoneAsRecorded == SentWasDone /\ FailedWasNot /\ DoneOnce
=============================================================================
