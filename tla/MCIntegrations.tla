---------------------------- MODULE MCIntegrations ----------------------------
(***************************************************************************)
(* Small instances of parts that share no state, checked in one run:        *)
(* the initial state chooses the part that moves, and the others rest.     *)
(***************************************************************************)
EXTENDS WebhookInbox, DueChecks, Pulls, Bookings, OnlinePayments,
        ProviderCalls, Reminders

VARIABLE part

allVars == <<part, inboxVars, dueVars, tokenVars, pullVars, bookingVars, payVars, callVars,
             remindVars>>

\* A part that rests has nothing to do, so that its fairness asks for nothing.
Init ==
    /\ part \in {"inbox", "due", "token", "pull", "booking", "payment", "call", "remind"}
    /\ InboxInit /\ DueChecksInit /\ TokensInit /\ PullsInit /\ BookingsInit /\ PayInit
    /\ ProviderCallsInit /\ RemindInit
    /\ part # "due" =>
          source = "none" /\ silent = {} /\ oldest = CHOOSE o \in SetToSeqs(Numbers) : TRUE
    /\ part = "due" => source # "none"
    /\ part # "pull" => discipline = "uid"
    /\ part # "payment" => processor = "stripe"
    /\ part # "call" => use = Twilio

Next ==
    /\ UNCHANGED part
    /\ IF part = "inbox" THEN InboxNext ELSE UNCHANGED inboxVars
    /\ IF part = "due" THEN DueChecksNext ELSE UNCHANGED dueVars
    /\ IF part = "token" THEN TokensNext ELSE UNCHANGED tokenVars
    /\ IF part = "pull" THEN PullsNext ELSE UNCHANGED pullVars
    /\ IF part = "booking" THEN BookingsNext ELSE UNCHANGED bookingVars
    /\ IF part = "payment" THEN PayNext ELSE UNCHANGED payVars
    /\ IF part = "call" THEN ProviderCallsNext ELSE UNCHANGED callVars
    /\ IF part = "remind" THEN RemindNext ELSE UNCHANGED remindVars

Spec == Init /\ [][Next]_allVars /\ InboxFairness /\ DueChecksFairness

\* Each part has its type.
TypeOK ==
    /\ InboxTypeOK /\ DueChecksTypeOK /\ TokensTypeOK /\ PullsTypeOK /\ BookingsTypeOK
    /\ PayTypeOK /\ ProviderCallsTypeOK /\ RemindTypeOK

\* What goes out is done once and recorded as it was: any action at a provider
\* (ProviderCalls), the emails that remind clients of payments (Reminders), and the lookups
\* of carriers, none of which is recorded as refused for a token gone stale (DueChecks).
SentAsRecorded == DoneAsRecorded /\ RemindersInOrder /\ StaleTokenRenewed

\* Nothing that is tracked or acknowledged waits for ever: webhook events are settled
\* (WebhookInbox) and numbers checked again and again (DueChecks).
NothingWaitsForEver == InboxSettles /\ NobodyStarves
=============================================================================
