------------------------------ MODULE MCConnect ------------------------------
(***************************************************************************)
(* Small instances of parts that share no state, checked in one run:       *)
(* the initial state chooses the part that moves, and the others rest.     *)
(***************************************************************************)
EXTENDS Connections, Communications, Signatures, Meetings, StaffSignIn,
        DocumentStorage, Shipments, WebhookSetup, Messages, Calendars, TLC

CONSTANTS w1, w2

VARIABLE part

allVars == <<part, connVars, consentVars, commsVars, signVars, meetVars, secondVars,
             providerVars, teamVars, driveVars, shipVars, hookVars, messageVars,
             calendarVars>>

Init ==
    /\ part \in {"connection", "consent", "log", "signature", "meeting", "code", "provider",
                 "team", "drive", "shipment", "hook", "message", "answer", "calendar"}
    /\ ConnInit /\ ConsentInit /\ CommsInit /\ SignInit /\ MeetInit
    /\ SecondInit /\ ProviderInit /\ TeamInit /\ DriveInit /\ ShipInit /\ HooksInit
    /\ MessagesInit /\ CalendarsInit
    /\ part # "log" => ~ours /\ ~skipping
    /\ part # "provider" => \A p \in People : account[p].mail = given.mail
    /\ part # "provider" => given.mail = CHOOSE m \in Mails : TRUE
    /\ part # "shipment" => carrier = "ups"
    /\ part # "hook" => taker = Twilio

\* Of a meeting or the drive nothing is claimed after a mishap, nor of a connection once a
\* renewed token was lost and a late request saved: such a behaviour is followed no further.
StillClaimed == ~mishap /\ ~outran /\ ~(history.lost /\ history.revived)

Next ==
    /\ StillClaimed
    /\ UNCHANGED part
    /\ IF part = "connection" THEN ConnNext ELSE UNCHANGED connVars
    /\ IF part = "consent" THEN ConsentNext ELSE UNCHANGED consentVars
    /\ IF part = "log" THEN CommsNext ELSE UNCHANGED commsVars
    /\ IF part = "signature" THEN SignNext ELSE UNCHANGED signVars
    /\ IF part = "meeting" THEN MeetNext ELSE UNCHANGED meetVars
    /\ IF part = "code" THEN SecondNext ELSE UNCHANGED secondVars
    /\ IF part = "provider" THEN ProviderNext ELSE UNCHANGED providerVars
    /\ IF part = "team" THEN TeamNext ELSE UNCHANGED teamVars
    /\ IF part = "drive" THEN DriveNext ELSE UNCHANGED driveVars
    /\ IF part = "shipment" THEN ShipNext ELSE UNCHANGED shipVars
    /\ IF part = "hook" THEN HooksNext ELSE UNCHANGED hookVars
    /\ IF part = "message" THEN FilesNext
       ELSE IF part = "answer" THEN AnswersNext ELSE UNCHANGED messageVars
    /\ IF part = "calendar" THEN CalendarsNext ELSE UNCHANGED calendarVars

Spec == Init /\ [][Next]_allVars

\* The part that moves keeps its type.
TypeOK ==
    /\ part = "connection" => ConnTypeOK
    /\ part = "consent" => ConsentTypeOK
    /\ part = "log" => CommsTypeOK
    /\ part = "signature" => SignTypeOK
    /\ part = "meeting" => MeetTypeOK
    /\ part = "code" => SecondTypeOK
    /\ part = "provider" => ProviderTypeOK
    /\ part = "team" => TeamTypeOK
    /\ part = "drive" => DriveTypeOK
    /\ part = "shipment" => ShipTypeOK
    /\ part = "hook" => HooksTypeOK
    /\ part \in {"message", "answer"} => MessagesTypeOK
    /\ part = "calendar" => CalendarsTypeOK

\* What the CRM has made at providers matches its own records: meetings for appointments
\* (Meetings), copies of documents (DocumentStorage), webhooks (WebhookSetup) and events
\* (Calendars); and what clients send there is logged with its files, and answered in time
\* (Messages).
ProvidersMatch ==
    MeetingMatches /\ CopiesMatch /\ HooksInOrder /\ MessagesInOrder /\ CalendarsMatch

\* What providers report again and again, a parcel's tracking (Shipments) or an event of a
\* calendar (Calendars), changes the CRM's records only as it should.
ReportsInOrder == ReadingsKept /\ MovesExplained

\* The requests and tasks may be exchanged.
Symmetry == Permutations({w1, w2})
=============================================================================
