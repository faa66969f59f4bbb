----------------------------- MODULE Signatures ------------------------------
(***************************************************************************)
(* One document sent for signature (crm/signatures/services.py,            *)
(* records.py, views.py), its envelope at the provider, and what moves     *)
(* between them: the send that makes the envelope before its row, staff's  *)
(* cancellations, and the provider's events, each handled by asking where  *)
(* the envelope stands (connectors/documenso).                             *)
(***************************************************************************)
EXTENDS Naturals, FiniteSets

CONSTANTS
    Signers,     \* who is asked to sign
    Cancellers,  \* requests that cancel
    Readers      \* workers that handle the provider's events

ASSUME SignaturesAssumption == Signers # {} /\ IsFiniteSet(Signers)

VARIABLES
    envelope,   \* the provider's document: where it stands, who has signed
    due,        \* its events not handled yet
    paper,      \* the SignatureRequest: status, each signer's, signed copies filed
    sending,    \* send has had the provider's answer and not made the row
    canceller,  \* each cancellation: its step, and the signers as it read them
    reading,    \* each worker: the reports it has made of the provider's answer
    unheard     \* an event failed, or came to nothing because the row was not there

signVars == <<envelope, due, paper, sending, canceller, reading, unheard>>

Ended == {"completed", "declined", "cancelled"}
Pending == [s \in Signers |-> "pending"]
MarkSets == [Signers -> {"pending", "signed", "declined"}]
Reports == [says : Ended \cup {"signed"}, of : SUBSET Signers]

SignTypeOK ==
    /\ envelope \in [at : {"none", "open", "deleted"} \cup Ended, signed : SUBSET Signers,
                    refused : SUBSET Signers]
    /\ due \in 0..Cardinality(Signers) + 2
    /\ paper \in [status : {"none", "sent"} \cup Ended, marks : MarkSets, filed : Nat]
    /\ sending \in {"no", "answered", "over"}
    /\ canceller \in [Cancellers -> [step : {"idle", "asking", "agreed"}, marks : MarkSets]]
    /\ reading \in [Readers -> SUBSET Reports]
    /\ unheard \in BOOLEAN

----------------------------------------------------------------------------
\* The provider.  Every change sends one event, the last signature two; deleting a
\* document at the provider sends none.
Sign(s) ==
    /\ envelope.at = "open" /\ s \notin envelope.signed
    /\ envelope' = [envelope EXCEPT !.signed = @ \cup {s},
           !.at = IF envelope.signed \cup {s} = Signers THEN "completed" ELSE "open"]
    /\ due' = due + IF envelope'.at = "completed" THEN 2 ELSE 1
    /\ UNCHANGED <<paper, sending, canceller, reading, unheard>>

Refuse(s) ==
    /\ envelope.at = "open" /\ s \notin envelope.signed
    /\ envelope' = [envelope EXCEPT !.at = "declined", !.refused = {s}]
    /\ due' = due + 1
    /\ UNCHANGED <<paper, sending, canceller, reading, unheard>>

EndAtProvider(end) ==
    /\ envelope.at = "open"
    /\ envelope' = [envelope EXCEPT !.at = end]
    /\ due' = due + IF end = "deleted" THEN 0 ELSE 1
    /\ UNCHANGED <<paper, sending, canceller, reading, unheard>>

\* services.send: the envelope first, its row when the answer is there.
Send ==
    /\ sending = "no"
    /\ sending' = "answered"
    /\ envelope' = [envelope EXCEPT !.at = "open"]
    /\ due' = due + 1
    /\ UNCHANGED <<paper, canceller, reading, unheard>>

MakeRow ==
    /\ sending = "answered"
    /\ sending' = "over"
    /\ paper' = [paper EXCEPT !.status = "sent"]
    /\ UNCHANGED <<envelope, due, canceller, reading, unheard>>

\* The process goes away in between: the document is out and the CRM has no row of it.
LoseRow ==
    /\ sending = "answered"
    /\ sending' = "over"
    /\ unheard' = TRUE
    /\ UNCHANGED <<envelope, due, paper, canceller, reading>>

----------------------------------------------------------------------------
\* cancel reads a request that is out, and asks the provider.
Cancel(c) ==
    /\ canceller[c].step = "idle"
    /\ paper.status = "sent"
    /\ canceller' = [canceller EXCEPT ![c] = [step |-> "asking", marks |-> paper.marks]]
    /\ UNCHANGED <<envelope, due, paper, sending, reading, unheard>>

\* Slip: an answer that the document cannot be cancelled is taken for agreement.
AskAnyway(c) ==
    /\ canceller[c].step = "asking"
    /\ canceller' = [canceller EXCEPT ![c].step = "agreed"]
    /\ envelope' = [envelope EXCEPT !.at = IF @ = "open" THEN "cancelled" ELSE @]
    /\ due' = due + IF envelope.at = "open" THEN 1 ELSE 0
    /\ UNCHANGED <<paper, sending, reading, unheard>>

\* perform("cancel_signature"): only a document that is out can be cancelled; the
\* provider's refusal raises and nothing is saved.
AskProvider(c) ==
    /\ canceller[c].step = "asking"
    /\ IF envelope.at = "open"
       THEN /\ canceller' = [canceller EXCEPT ![c].step = "agreed"]
            /\ envelope' = [envelope EXCEPT !.at = "cancelled"]
            /\ due' = due + 1
       ELSE /\ canceller' = [canceller EXCEPT ![c] = [step |-> "idle", marks |-> Pending]]
            /\ UNCHANGED <<envelope, due>>
    /\ UNCHANGED <<paper, sending, reading, unheard>>

\* finish saves the status and the signers on the row as it was read.
SaveCancelled(c) ==
    /\ canceller[c].step = "agreed"
    /\ paper' = [paper EXCEPT !.status = "cancelled", !.marks = canceller[c].marks]
    /\ canceller' = [canceller EXCEPT ![c] = [step |-> "idle", marks |-> Pending]]
    /\ UNCHANGED <<envelope, due, sending, reading, unheard>>

\* The preview mode, a failed call, a crash.
CancelFails(c) ==
    /\ canceller[c].step # "idle"
    /\ canceller' = [canceller EXCEPT ![c] = [step |-> "idle", marks |-> Pending]]
    /\ UNCHANGED <<envelope, due, paper, sending, reading, unheard>>

----------------------------------------------------------------------------
\* Slip: a rejected document is not among the finished ones.
AnswerUnfinished ==
    CASE envelope.at = "completed" -> {[says |-> "completed", of |-> {}]}
      [] envelope.at \in {"cancelled", "deleted"} -> {[says |-> "cancelled", of |-> {}]}
      [] OTHER -> {[says |-> "signed", of |-> {s}] : s \in envelope.signed}

\* handle_webhook: the event is only a hint, the provider says where the envelope stands.
Answer ==
    CASE envelope.at \in {"completed", "declined"} ->
            {[says |-> envelope.at, of |-> envelope.refused]}
      [] envelope.at \in {"cancelled", "deleted"} -> {[says |-> "cancelled", of |-> {}]}
      [] OTHER -> {[says |-> "signed", of |-> {s}] : s \in envelope.signed}

TakeEvent(r) ==
    /\ reading[r] = {} /\ due > 0
    /\ due' = due - 1
    /\ reading' = [reading EXCEPT ![r] = Answer]
    /\ UNCHANGED <<envelope, paper, sending, canceller, unheard>>

\* mark
Marked(report) ==
    CASE report.says = "signed" ->
            [s \in Signers |-> IF s \in report.of THEN "signed" ELSE paper.marks[s]]
      [] report.says = "completed" -> [s \in Signers |-> "signed"]
      [] report.says = "declined" ->
            [s \in Signers |-> IF s \in report.of THEN "declined" ELSE paper.marks[s]]
      [] OTHER -> paper.marks

Stored(report) ==
    [status |-> IF report.says \in Ended THEN report.says ELSE paper.status,
     marks |-> Marked(report),
     filed |-> paper.filed + IF report.says = "completed" THEN 1 ELSE 0]

\* records.store, under the row's lock: a finished request stays as it is.
StoreReport(r, report) ==
    /\ report \in reading[r]
    /\ reading' = [reading EXCEPT ![r] = @ \ {report}]
    /\ paper' = IF paper.status = "sent" THEN Stored(report) ELSE paper
    /\ unheard' = (unheard \/ paper.status = "none")
    /\ UNCHANGED <<envelope, due, sending, canceller>>

\* The provider could not be asked, or the signed copy not be had: the event has failed.
EventFails ==
    /\ due > 0
    /\ due' = due - 1
    /\ unheard' = TRUE
    /\ UNCHANGED <<envelope, paper, sending, canceller, reading>>

----------------------------------------------------------------------------
SignInit ==
    /\ envelope = [at |-> "none", signed |-> {}, refused |-> {}]
    /\ due = 0
    /\ paper = [status |-> "none", marks |-> Pending, filed |-> 0]
    /\ sending = "no"
    /\ canceller = [c \in Cancellers |-> [step |-> "idle", marks |-> Pending]]
    /\ reading = [r \in Readers |-> {}]
    /\ unheard = FALSE

SignNext ==
    \/ \E s \in Signers : Sign(s) \/ Refuse(s)
    \/ \E end \in {"cancelled", "deleted"} : EndAtProvider(end)
    \/ Send \/ MakeRow \/ LoseRow \/ EventFails
    \/ \E c \in Cancellers : Cancel(c) \/ AskProvider(c) \/ SaveCancelled(c) \/ CancelFails(c)
    \/ \E r \in Readers : TakeEvent(r) \/ \E report \in Reports : StoreReport(r, report)

SignSpec == SignInit /\ [][SignNext]_signVars

----------------------------------------------------------------------------
\* A request called cancelled was not signed by all, and its signed copy is filed just
\* when it is called completed, once, however cancellations and repeated or late events
\* cross (services.cancel, records.store).
FiledOnceSigned ==
    /\ paper.status = "cancelled" => envelope.at # "completed"
    /\ paper.filed = IF paper.status = "completed" THEN 1 ELSE 0

\* When no event or cancellation is under way, none failed and none came before the row,
\* a request has the outcome its envelope has at the provider, and shows who has signed
\* (handle_webhook asks, so the order of the events does not matter).
OutcomeKnown ==
    LET quiet == /\ due = 0 /\ ~unheard /\ sending = "over"
                 /\ \A c \in Cancellers : canceller[c].step = "idle"
                 /\ \A r \in Readers : reading[r] = {}
    IN  quiet /\ envelope.at # "deleted" =>
           /\ paper.status = IF envelope.at = "open" THEN "sent" ELSE envelope.at
           /\ envelope.at = "open" => \A s \in envelope.signed : paper.marks[s] = "signed"

\* A signature request ends as its envelope did (signatures/services.py, records.py).
RequestAsSigned == FiledOnceSigned /\ OutcomeKnown
=============================================================================
