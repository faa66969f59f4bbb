------------------------------ MODULE WebhookSetup ------------------------------
(***************************************************************************)
(* A connection's webhook, at the provider and in its row: staff turn      *)
(* webhooks on and have the CRM register the address (connection_webhooks, *)
(* enable_webhooks, the connectors' register_webhook), change the          *)
(* connection's settings, disconnect it, and a Microsoft 365 sync renews   *)
(* its subscriptions.  Each reads the row, calls the provider, and saves   *)
(* the whole config column from what it read; nothing locks the row.       *)
(* What becomes of the credentials is in Connections, what an accepted     *)
(* event does in WebhookInbox.                                             *)
(***************************************************************************)
EXTENDS Naturals, Sequences, FiniteSets

CONSTANTS
    Admins,     \* requests and syncs that may be under way together
    Subscriptions,  \* how many subscriptions a Graph connection asks for
    MaxSetups,  \* how often webhooks are turned on
    MaxHooks    \* how many webhooks the provider makes

ASSUME WebhookSetupAssumption ==
    /\ Subscriptions \in Nat \ {0} /\ MaxSetups \in Nat /\ MaxHooks \in Nat

VARIABLES
    taker,    \* the provider, by how it takes a webhook
    hookRow,  \* the row: status, webhook_token_hash, webhook_secret, webhook_url, and
              \* of config the webhooks that the connector knows
    tokens,   \* how many tokens were made
    doing,    \* each request's or sync's work, with the row as it read it
    hooks,    \* the provider's webhooks, in the order they were made
    crossed,  \* ghost: the work under way that met other work on the same connection
    strays,   \* ghost: webhooks left to nobody by work that failed or was crossed
    led       \* ghost: the last registration was undisturbed, and nothing undid it since

hookGhosts == <<crossed, strays, led>>
hookVars == <<taker, hookRow, tokens, doing, hooks, hookGhosts>>

----------------------------------------------------------------------------
\* How the provider takes an address: in webhooks of its own or in several subscriptions,
\* or as the one address of a number; and whose secret it signs with.
Taker(how, secret) == [how |-> how, secret |-> secret]

Dialpad  == Taker("webhook", "crm")
CalCom   == Taker("webhook", "crm")
Calendly == Taker("webhook", "crm")
Stripe   == Taker("webhook", "provider")
Graph    == Taker("subscriptions", "crm")
Twilio   == Taker("number", "credential")

Takers == {Dialpad, CalCom, Calendly, Stripe, Graph, Twilio}

HookIds == 1..Len(hooks)
Alive == {h \in HookIds : hooks[h].alive}

Secret(source, n) == [source |-> source, n |-> n]
NoSecret == Secret("none", 0)

BareRow == [status |-> "active", token |-> 0, secret |-> NoSecret, url |-> 0,
           known |-> {}]

\* left: webhooks still to remove, or subscriptions still to renew; made: webhooks it made.
NoWork == [op |-> "none", step |-> "idle", read |-> BareRow, left |-> {}, made |-> {}]

HookRows ==
    [status : {"active", "disconnected"}, token : 0..MaxSetups,
     secret : [source : {"none", "crm", "pasted", "credential", "provider"}, n : Nat],
     url : 0..MaxSetups, known : SUBSET (1..MaxHooks)]

HooksTypeOK ==
    /\ taker \in Takers
    /\ hookRow \in HookRows
    /\ tokens \in 0..MaxSetups
    /\ doing \in [Admins ->
          [op : {"none", "setup", "config", "disconnect", "renew"},
           step : {"idle", "remove", "make", "renew", "save"},
           read : HookRows, left : SUBSET (1..MaxHooks), made : SUBSET (1..MaxHooks)]]
    /\ Len(hooks) <= MaxHooks
    /\ crossed \subseteq Admins
    /\ strays \subseteq 1..MaxHooks
    /\ led \in BOOLEAN

AtStep(r, op, step) == doing[r].op = op /\ doing[r].step = step
Idles(r) == doing[r].op = "none"

\* r reads the row; whoever else is at work on the connection is crossed by it, and it by
\* them.
Starts(r, work) ==
    LET others == {q \in Admins \ {r} : ~Idles(q)} IN
    /\ doing' = [doing EXCEPT ![r] = work]
    /\ crossed' = IF others = {} THEN crossed ELSE crossed \cup others \cup {r}

MovesOn(r, step, left, made) ==
    /\ doing' = [doing EXCEPT ![r].step = step, ![r].left = left, ![r].made = made]
    /\ UNCHANGED crossed

LeftToNobody ==
    {h \in 1..Len(hooks') : hooks'[h].alive} \
        (hookRow'.known \cup UNION {doing'[q].made : q \in Admins})

\* r is through.  When it failed or was crossed, what nobody keeps any more is a stray.
Through(r, undisturbed) ==
    /\ doing' = [doing EXCEPT ![r] = NoWork]
    /\ crossed' = crossed \ {r}
    /\ strays' = IF undisturbed /\ r \notin crossed THEN strays
                 ELSE strays \cup LeftToNobody

----------------------------------------------------------------------------
(* The provider. *)

\* A webhook is made for an address and signs with a secret, Stripe's with Stripe's own; a
\* number's new address takes the place of the one before.
Makes(token, secret) ==
    /\ Len(hooks) < MaxHooks
    /\ hooks' = Append(
          [h \in HookIds |-> [hooks[h] EXCEPT !.alive = @ /\ taker # Twilio]],
          [address |-> token, alive |-> TRUE,
           secret |-> IF taker = Stripe THEN Secret("provider", Len(hooks) + 1) ELSE secret])

\* A subscription lapses, or someone deletes the webhook at the provider.
Lapse(h) ==
    /\ h \in Alive
    /\ hooks' = [hooks EXCEPT ![h].alive = FALSE]
    /\ UNCHANGED <<taker, hookRow, tokens, doing, hookGhosts>>

\* Calls pass only with the credentials, which a disconnected row has no more.
MayCall(r) == doing[r].read.status = "active"

\* verify_webhook: signed with the row's secret, whatever the form of the signature.
Verified(h) == hooks[h].secret = hookRow.secret

\* Graph's notifications also name a subscription that the row knows.
SubscriptionKnown(h) == taker = Graph => h \in hookRow.known

\* What receive_webhook takes in, at the token of a connection that is on.
Accepts(h) ==
    /\ hookRow.status = "active"
    /\ hooks[h].address = hookRow.token
    /\ Verified(h)
    /\ SubscriptionKnown(h)

----------------------------------------------------------------------------
(* connection_webhooks: enable_webhooks, then the connector's register_webhook. *)

\* Twilio signs with a credential.  Stripe's secret is pasted when the CRM is not to
\* register the address.
SecretFor(registering, token) ==
    CASE taker.secret = "credential" -> Secret("credential", 0)
      [] taker.secret = "provider" /\ ~registering -> Secret("pasted", token)
      [] OTHER -> Secret("crm", token)

Enable(r, registering) ==
    /\ Idles(r)
    /\ tokens < MaxSetups
    /\ taker = Twilio => hookRow.status = "active"
    /\ tokens' = tokens + 1
    /\ hookRow' = [hookRow EXCEPT !.token = tokens', !.secret = SecretFor(registering, tokens')]
    /\ IF registering
       THEN Starts(r, [op |-> "setup", read |-> hookRow', left |-> hookRow.known,
                       made |-> {},
                       step |-> IF hookRow.known = {} THEN "make" ELSE "remove"])
       ELSE /\ crossed' = crossed \cup {q \in Admins : ~Idles(q)}
            /\ UNCHANGED doing
    /\ led' = FALSE
    /\ UNCHANGED <<taker, hooks, strays>>

\* Slip: the webhook made before is left at the provider.
RemoveNothing(r, h) ==
    /\ doing[r].step = "remove"
    /\ h \in doing[r].left
    /\ MayCall(r)
    /\ MovesOn(r, IF doing[r].op = "disconnect" THEN "save" ELSE "make", {}, {})
    /\ UNCHANGED <<taker, hookRow, tokens, hooks, strays, led>>

\* remove_webhook, or one subscription of remove_subscriptions: one the provider does not
\* know any more (404) counts as removed.  Only Graph's are taken off the row, at the end.
RemoveHook(r, h) ==
    /\ doing[r].step = "remove"
    /\ h \in doing[r].left
    /\ MayCall(r)
    /\ hooks' = [hooks EXCEPT ![h].alive = FALSE]
    /\ LET left == doing[r].left \ {h} IN
       /\ MovesOn(r, IF left # {} THEN "remove"
                  ELSE IF doing[r].op = "disconnect" THEN "save" ELSE "make", left, {})
       /\ hookRow' = IF left = {} /\ taker = Graph /\ doing[r].op = "setup"
                  THEN [hookRow EXCEPT !.known = {}]
                  ELSE hookRow
    /\ led' = (led /\ hookRow' = hookRow)
    /\ strays' = IF r \in crossed THEN strays \cup LeftToNobody ELSE strays
    /\ UNCHANGED <<taker, tokens>>

\* POST of the webhook, or of one of Graph's subscriptions, for the address just tokens.
MakeHook(r) ==
    /\ AtStep(r, "setup", "make")
    /\ MayCall(r)
    /\ Makes(doing[r].read.token, doing[r].read.secret)
    /\ LET made == doing[r].made \cup {Len(hooks')} IN
       MovesOn(r, IF taker = Graph /\ Cardinality(made) < Subscriptions THEN "make" ELSE "save",
            {}, made)
    /\ UNCHANGED <<taker, hookRow, tokens, strays, led>>

\* The connector keeps the webhook in the config it read, Stripe with its secret, Graph and
\* Twilio with the address among the credentials.
SaveHook(r) ==
    /\ AtStep(r, "setup", "save")
    /\ hookRow' = [hookRow EXCEPT
          !.known = doing[r].made \ (IF taker = Twilio THEN HookIds ELSE {}),
          !.secret = IF taker = Stripe
                     THEN hooks[CHOOSE h \in doing[r].made : TRUE].secret ELSE @,
          !.url = IF taker \in {Graph, Twilio} THEN doing[r].read.token ELSE @]
    /\ UNCHANGED <<taker, tokens, hooks>>
    /\ Through(r, TRUE)
    /\ led' = (r \notin crossed)

----------------------------------------------------------------------------
(* The other work on the row. *)

\* connection_config: the form asks the provider for its options, while the row that
\* was read waits.
OpenConfig(r) ==
    /\ Idles(r)
    /\ hookRow.status = "active"
    /\ Starts(r, [op |-> "config", step |-> "save", read |-> hookRow, left |-> {},
                  made |-> {}])
    /\ UNCHANGED <<taker, hookRow, tokens, hooks, strays, led>>

SaveConfig(r) ==
    /\ AtStep(r, "config", "save")
    /\ hookRow' = [hookRow EXCEPT !.known = doing[r].read.known]
    /\ UNCHANGED <<taker, tokens, hooks>>
    /\ Through(r, TRUE)
    /\ led' = (led /\ r \notin crossed)

\* renew_subscriptions, in a sync of mail or of the calendar (one runs at a time): the
\* subscriptions that are due.
BeginRenewal(r) ==
    /\ Idles(r) /\ \A q \in Admins : doing[q].op # "renew"
    /\ taker = Graph
    /\ hookRow.status = "active" /\ hookRow.url # 0 /\ hookRow.secret # NoSecret
    /\ \E due \in SUBSET hookRow.known \ {{}} :
          Starts(r, [op |-> "renew", step |-> "renew", read |-> hookRow, left |-> due,
                     made |-> {}])
    /\ UNCHANGED <<taker, hookRow, tokens, hooks, strays, led>>

\* One that is there gets more time; one that is gone is subscribed to again, at the address
\* and with the secret that were read.
RenewOne(r, h) ==
    /\ AtStep(r, "renew", "renew")
    /\ h \in doing[r].left
    /\ LET left == doing[r].left \ {h}
           step == IF left = {} THEN "save" ELSE "renew"
           known == doing[r].read.known \ {h} IN
       IF hooks[h].alive
       THEN MovesOn(r, step, left, doing[r].made) /\ UNCHANGED hooks
       ELSE /\ Makes(doing[r].read.url, doing[r].read.secret)
            /\ doing' = [doing EXCEPT ![r].step = step, ![r].left = left,
                                      ![r].made = @ \cup {Len(hooks')},
                                      ![r].read.known = known]
            /\ UNCHANGED crossed
    /\ UNCHANGED <<taker, hookRow, tokens, strays, led>>

SaveRenewal(r) ==
    /\ AtStep(r, "renew", "save")
    /\ hookRow' = [hookRow EXCEPT
          !.known = doing[r].read.known \cup doing[r].made]
    /\ UNCHANGED <<taker, tokens, hooks>>
    /\ Through(r, TRUE)
    /\ led' = (led /\ r \notin crossed)

\* disconnect: revoke removes what the row it read knows of; Twilio's has nothing to remove.
BeginRemoval(r) ==
    /\ Idles(r)
    /\ Starts(r, [op |-> "disconnect", read |-> hookRow, left |-> hookRow.known,
                  made |-> {},
                  step |-> IF hookRow.known = {} THEN "save" ELSE "remove"])
    /\ UNCHANGED <<taker, hookRow, tokens, hooks, strays, led>>

\* Whatever came of the revocation, and Graph's config with it when it went well.
CommitRemoval(r) ==
    /\ AtStep(r, "disconnect", "save")
    /\ hookRow' = [hookRow EXCEPT !.status = "disconnected", !.token = 0, !.secret = NoSecret,
                            !.url = 0,
                            !.known = IF taker = Graph /\ doing[r].read.known # {}
                                      THEN {} ELSE @]
    /\ UNCHANGED <<taker, tokens, hooks>>
    /\ Through(r, TRUE)
    /\ led' = FALSE

----------------------------------------------------------------------------
(* What fails. *)

\* A call is refused or not answered: a registration or a renewal ends with the error, a
\* disconnection notes it and goes on.
SetupFails(r) ==
    /\ \/ AtStep(r, "setup", "remove")
       \/ AtStep(r, "setup", "make")
       \/ AtStep(r, "renew", "renew")
    /\ UNCHANGED <<taker, hookRow, tokens, hooks, led>>
    /\ Through(r, FALSE)

\* The provider made the webhook and its answer was lost.
AnswerLost(r) ==
    /\ AtStep(r, "setup", "make")
    /\ MayCall(r)
    /\ Makes(doing[r].read.token, doing[r].read.secret)
    /\ UNCHANGED <<taker, hookRow, tokens, led>>
    /\ Through(r, FALSE)

RevokeFails(r) ==
    /\ AtStep(r, "disconnect", "remove")
    /\ hookRow' = [hookRow EXCEPT !.status = "disconnected", !.token = 0, !.secret = NoSecret,
                            !.url = 0]
    /\ UNCHANGED <<taker, tokens, hooks>>
    /\ Through(r, FALSE)
    /\ led' = FALSE

\* The process goes away; a disconnection that had not committed left the row as it was.
GoAway(r) ==
    /\ ~Idles(r)
    /\ UNCHANGED <<taker, hookRow, tokens, hooks, led>>
    /\ Through(r, FALSE)

----------------------------------------------------------------------------
HooksInit ==
    /\ taker \in Takers
    /\ hookRow = BareRow
    /\ tokens = 0
    /\ doing = [r \in Admins |-> NoWork]
    /\ hooks = << >>
    /\ crossed = {}
    /\ strays = {}
    /\ led = FALSE

HooksNext ==
    \/ \E r \in Admins :
          \/ \E registering \in BOOLEAN : Enable(r, registering)
          \/ \E h \in HookIds : RemoveHook(r, h) \/ RenewOne(r, h)
          \/ MakeHook(r) \/ SaveHook(r)
          \/ OpenConfig(r) \/ SaveConfig(r)
          \/ BeginRenewal(r) \/ SaveRenewal(r)
          \/ BeginRemoval(r) \/ CommitRemoval(r)
          \/ SetupFails(r) \/ AnswerLost(r) \/ RevokeFails(r) \/ GoAway(r)
    \/ \E h \in HookIds : Lapse(h)

HooksSpec == HooksInit /\ [][HooksNext]_hookVars

----------------------------------------------------------------------------
\* Every webhook at the provider is one the row knows, and can remove later, or one that
\* work under way just made, but for those that failures and crossings left behind; a
\* number has one address at most.
HooksKnown ==
    IF taker = Twilio THEN Cardinality(Alive) <= 1
    ELSE Alive \subseteq
            hookRow.known \cup strays \cup UNION {doing[r].made : r \in Admins}

\* Once the address was registered and nothing crossed it, the provider's events are
\* accepted, through renewals and changes of the settings, until webhooks are set up anew
\* or the connection is disconnected (receive_webhook, verify_webhook).
EventsComeIn ==
    led => \A h \in Alive :
              h \in hookRow.known \/ taker = Twilio => Accepts(h)

\* A disconnection that nothing crossed and no call failed leaves no webhook behind.
NoneLeft ==
    \A r \in Admins :
        AtStep(r, "disconnect", "save") /\ r \notin crossed /\ taker # Twilio =>
            Alive \subseteq strays

\* A webhook is there as long as it is wanted, and no longer.
HooksInOrder == HooksKnown /\ EventsComeIn /\ NoneLeft
=============================================================================
