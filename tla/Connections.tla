----------------------------- MODULE Connections -----------------------------
(***************************************************************************)
(* One signed-in connection, from crm/connect/services.py, oauth.py and    *)
(* pages.py: staff test it, sign in again, change its settings, turn       *)
(* webhooks on and disconnect it, while workers and web requests renew its *)
(* access token.  Every request keeps a copy of the row as it last read    *)
(* it; some save a few fields of that copy, a finished sign-in saves it    *)
(* all.  The provider takes each refresh token once and hands out the next.*)
(***************************************************************************)
EXTENDS Naturals

CONSTANTS
    Requests,   \* web requests and worker tasks that are under way
    MaxGrants   \* bound on the tokens the provider hands out

ASSUME RequestsAssumption == Requests # {}
ASSUME BoundsAssumption == MaxGrants \in Nat \ {0}

VARIABLES
    conn,        \* the row: status and credentials
    subscribed,  \* its settings hold subscriptions at the provider
    req,         \* what each request is doing, and its copy of the row
    issued,      \* how many tokens the provider has handed out
    live,        \* the tokens it still takes
    spent,       \* those it has been given to renew
    late,        \* requests that were under way when the connection was disconnected
    history      \* whether a renewed token was lost, and a late request saved

row == <<conn, subscribed>>
provider == <<issued, live, spent>>
ghosts == <<late, history>>
connVars == <<conn, subscribed, req, issued, live, spent, late, history>>

Grants == 1..MaxGrants
Statuses == {"active", "needs_attention", "needs_reauth", "disconnected"}
NoCredentials == [grant |-> 0, fresh |-> FALSE]
Credentials == [grant : 0..MaxGrants, fresh : BOOLEAN]
Rows == [status : Statuses, creds : Credentials]
Goals == {"use", "test", "subscribe"}
Steps == {"token", "locked", "renewed", "refused", "call", "passed", "failed",
          "pending", "signed_in", "disconnect"}

NewRow == [status |-> "needs_reauth", creds |-> NoCredentials]
Idle == [step |-> "idle", goal |-> "use", copy |-> NewRow]
\* What a request keeps of the row when it saves none of the rest.
Reading == [NewRow EXCEPT !.creds = conn.creds]

ConnTypeOK ==
    /\ conn \in Rows
    /\ subscribed \in BOOLEAN
    /\ req \in [Requests -> [step : Steps \cup {"idle"}, goal : Goals, copy : Rows]]
    /\ issued \in 0..MaxGrants
    /\ live \subseteq Grants
    /\ spent \subseteq Grants
    /\ late \subseteq Requests
    /\ history \in [lost : BOOLEAN, revived : BOOLEAN]

----------------------------------------------------------------------------
\* The row lock, the token's age, and how a request moves

\* access_token holds the row from select_for_update to its commit.
HoldsRow(r) == req[r].step \in {"locked", "renewed"}
RowFree == \A r \in Requests : ~HoldsRow(r)

SignedIn(creds) == creds.grant # 0
NeedsRefresh(creds) == SignedIn(creds) /\ ~creds.fresh

\* Slip: the refresh token that was stored before is kept over the new one.
KeptTokens(g) == [grant |-> IF g > 1 THEN g - 1 ELSE g, fresh |-> TRUE]

\* stored_tokens keeps the tokens and nothing else that was stored with them.
StoredTokens(g) == [grant |-> g, fresh |-> TRUE]

At(r, step) == req[r].step = step
Goto(r, step) == req' = [req EXCEPT ![r].step = step]
\* ... having read or been given other credentials.
GotoWith(r, step, creds) ==
    req' = [req EXCEPT ![r] = [step |-> step, goal |-> @.goal,
                               copy |-> [@.copy EXCEPT !.creds = creds]]]
Becomes(r, local) == req' = [req EXCEPT ![r] = local]
Ends(r) == Becomes(r, Idle) /\ late' = late \ {r}

\* The row's status is written by a request that may have begun before somebody
\* disconnected the connection.
SavesStatus(r, status) ==
    /\ conn' = [conn EXCEPT !.status = status]
    /\ history' = [history EXCEPT !.revived = @ \/ r \in late]

----------------------------------------------------------------------------
\* A current access token: access_token

\* A send, a sync, or staff testing the connection; each reads the row first.
Begin(r, goal) ==
    /\ At(r, "idle")
    /\ goal = "use" => conn.status = "active"
    /\ goal # "subscribe"
    /\ Becomes(r, [step |-> "token", goal |-> goal, copy |-> Reading])
    /\ UNCHANGED <<row, provider, ghosts>>

TokenIsCurrent(r) ==
    /\ At(r, "token")
    /\ ~NeedsRefresh(req[r].copy.creds)
    /\ Goto(r, "call")
    /\ UNCHANGED <<row, provider, ghosts>>

LockRow(r) ==
    /\ At(r, "token")
    /\ NeedsRefresh(req[r].copy.creds)
    /\ RowFree
    /\ GotoWith(r, "locked", conn.creds)
    /\ UNCHANGED <<row, provider, ghosts>>

\* Another request has renewed the token meanwhile.
AlreadyRenewed(r) ==
    /\ At(r, "locked")
    /\ SignedIn(req[r].copy.creds)
    /\ ~NeedsRefresh(req[r].copy.creds)
    /\ Goto(r, "call")
    /\ UNCHANGED <<row, provider, ghosts>>

\* The stored refresh token is given to the provider, which takes it.
Spend(r) ==
    LET g == req[r].copy.creds.grant IN
    /\ At(r, "locked")
    /\ NeedsRefresh(req[r].copy.creds)
    /\ g \in live
    /\ issued < MaxGrants
    /\ issued' = issued + 1
    /\ live' = (live \ {g}) \cup {issued + 1}
    /\ spent' = spent \cup {g}
    /\ GotoWith(r, "renewed", StoredTokens(issued + 1))
    /\ UNCHANGED <<row, ghosts>>

\* ... or refuses it.
SpendInVain(r) ==
    LET g == req[r].copy.creds.grant IN
    /\ At(r, "locked")
    /\ NeedsRefresh(req[r].copy.creds)
    /\ g \notin live
    /\ Goto(r, "refused")
    /\ UNCHANGED <<row, provider, ghosts>>

SaveRenewed(r) ==
    /\ At(r, "renewed")
    /\ conn' = [conn EXCEPT !.creds = req[r].copy.creds]
    /\ Goto(r, "call")
    /\ UNCHANGED <<subscribed, provider, ghosts>>

\* mark_needs_sign_in, outside the lock; a test then fails with it.
MarkRefused(r) ==
    /\ At(r, "refused")
    /\ RowFree
    /\ SavesStatus(r, "needs_reauth")
    /\ IF req[r].goal = "test"
       THEN (Goto(r, "failed") /\ UNCHANGED late)
       ELSE Ends(r)
    /\ UNCHANGED <<subscribed, provider>>

\* Nobody is signed in any more when the lock is taken: a KeyError ends the request.
NobodySignedIn(r) ==
    /\ At(r, "locked")
    /\ ~SignedIn(req[r].copy.creds)
    /\ Ends(r)
    /\ UNCHANGED <<row, provider, history>>

----------------------------------------------------------------------------
\* The call the token was for, and check_connection

CallPasses(r) ==
    /\ At(r, "call")
    /\ SignedIn(req[r].copy.creds)
    /\ IF req[r].goal = "use" THEN Ends(r) ELSE (Goto(r, "passed") /\ UNCHANGED late)
    /\ UNCHANGED <<row, provider, history>>

\* The provider refuses the call, or cannot be reached for it or for a new token.
CallFails(r) ==
    /\ \/ At(r, "call")
       \/ At(r, "locked") /\ NeedsRefresh(req[r].copy.creds)
    /\ IF req[r].goal = "test" THEN (Goto(r, "failed") /\ UNCHANGED late) ELSE Ends(r)
    /\ UNCHANGED <<row, provider, history>>

SaveTest(r) ==
    /\ req[r].goal = "test"
    /\ At(r, "passed") \/ At(r, "failed")
    /\ RowFree
    /\ SavesStatus(r, IF At(r, "passed") THEN "active" ELSE "needs_attention")
    /\ Ends(r)
    /\ UNCHANGED <<subscribed, provider>>

----------------------------------------------------------------------------
\* Signing in

\* authorization_url: the sign-in is remembered in the staff member's session.
StartSignIn(r) ==
    /\ At(r, "idle")
    /\ conn.status # "disconnected"
    /\ Becomes(r, [Idle EXCEPT !.step = "pending"])
    /\ UNCHANGED <<row, provider, ghosts>>

\* It expires, or nobody comes back from the provider.
ForgetSignIn(r) ==
    /\ At(r, "pending")
    /\ Ends(r)
    /\ UNCHANGED <<row, provider, history>>

\* The provider answers that the staff member cancelled, or refuses the code.
RefuseSignIn(r) ==
    /\ At(r, "pending")
    /\ RowFree
    /\ SavesStatus(r, "needs_reauth")
    /\ Ends(r)
    /\ UNCHANGED <<subscribed, provider>>

\* finish reads the row and exchanges the code for tokens ...
ExchangeCode(r) ==
    /\ At(r, "pending")
    /\ issued < MaxGrants
    /\ issued' = issued + 1
    /\ live' = live \cup {issued + 1}
    /\ Becomes(r, [step |-> "signed_in", goal |-> "test",
                   copy |-> [conn EXCEPT !.status = "active",
                                         !.creds = StoredTokens(issued + 1)]])
    /\ UNCHANGED <<row, spent, ghosts>>

\* ... and saves the row as it was read, with the tokens; a test follows.
SaveSignIn(r) ==
    /\ At(r, "signed_in")
    /\ RowFree
    /\ conn' = req[r].copy
    /\ history' = [history EXCEPT !.revived = @ \/ r \in late]
    /\ Goto(r, "call")
    /\ UNCHANGED <<subscribed, provider, late>>

----------------------------------------------------------------------------
\* Disconnecting and webhooks

\* disconnect: the provider may end the sign-in that the page had read.
BeginDisconnect(r) ==
    /\ At(r, "idle")
    /\ conn.status # "disconnected"
    /\ live' \in {live, live \ {conn.creds.grant}}
    /\ Becomes(r, [Idle EXCEPT !.step = "disconnect"])
    /\ UNCHANGED <<row, issued, spent, ghosts>>

\* Slip: the credentials stay in the row.
KeepCredentials(r) ==
    /\ At(r, "disconnect")
    /\ RowFree
    /\ conn' = [conn EXCEPT !.status = "disconnected"]
    /\ subscribed' = FALSE
    /\ Becomes(r, Idle)
    /\ late' = {q \in Requests : req[q].step # "idle"} \ {r}
    /\ UNCHANGED <<provider, history>>

CommitDisconnect(r) ==
    /\ At(r, "disconnect")
    /\ RowFree
    /\ conn' = [conn EXCEPT !.status = "disconnected", !.creds = NoCredentials]
    /\ subscribed' = FALSE
    /\ Becomes(r, Idle)
    /\ late' = {q \in Requests : req[q].step # "idle"} \ {r}
    /\ UNCHANGED <<provider, history>>

\* Staff turn webhooks on, and have the provider call the new address.
RegisterWebhooks(r) ==
    /\ At(r, "idle")
    /\ RowFree
    /\ Becomes(r, [step |-> "token", goal |-> "subscribe", copy |-> Reading])
    /\ UNCHANGED <<row, provider, ghosts>>

\* register_webhook keeps the address with its copy of the credentials, and the
\* subscriptions with the settings.
SaveSubscriptions(r) ==
    /\ req[r].goal = "subscribe"
    /\ At(r, "passed")
    /\ RowFree
    /\ conn' = [conn EXCEPT !.creds = req[r].copy.creds]
    /\ subscribed' = TRUE
    /\ history' = [lost |-> history.lost \/ conn.creds.grant # req[r].copy.creds.grant,
                   revived |-> history.revived \/ r \in late]
    /\ Ends(r)
    /\ UNCHANGED provider

----------------------------------------------------------------------------
\* The passing of time, the provider, and processes that go away

Expire ==
    /\ conn.creds.fresh
    /\ conn' = [conn EXCEPT !.creds.fresh = FALSE]
    /\ UNCHANGED <<subscribed, req, provider, ghosts>>

ProviderEnds(g) ==
    /\ g \in live
    /\ live' = live \ {g}
    /\ UNCHANGED <<row, req, issued, spent, ghosts>>

Crash(r) ==
    /\ ~At(r, "idle")
    /\ history' = [history EXCEPT !.lost = @ \/ At(r, "renewed")]
    /\ Ends(r)
    /\ UNCHANGED <<row, provider>>

----------------------------------------------------------------------------
ConnInit ==
    /\ conn = NewRow
    /\ subscribed = FALSE
    /\ req = [r \in Requests |-> Idle]
    /\ issued = 0 /\ live = {} /\ spent = {}
    /\ late = {}
    /\ history = [lost |-> FALSE, revived |-> FALSE]

TokenStep(r) ==
    \/ \E goal \in {"use", "test"} : Begin(r, goal)
    \/ TokenIsCurrent(r) \/ LockRow(r) \/ AlreadyRenewed(r) \/ NobodySignedIn(r)
    \/ Spend(r) \/ SpendInVain(r) \/ SaveRenewed(r) \/ MarkRefused(r)
    \/ CallPasses(r) \/ CallFails(r) \/ SaveTest(r)

StaffStep(r) ==
    \/ StartSignIn(r) \/ ForgetSignIn(r) \/ RefuseSignIn(r)
    \/ ExchangeCode(r) \/ SaveSignIn(r)
    \/ BeginDisconnect(r) \/ CommitDisconnect(r)
    \/ RegisterWebhooks(r) \/ SaveSubscriptions(r)

ConnNext ==
    \/ \E r \in Requests : TokenStep(r) \/ StaffStep(r) \/ Crash(r)
    \/ Expire
    \/ \E g \in Grants : ProviderEnds(g)

ConnSpec == ConnInit /\ [][ConnNext]_connVars

----------------------------------------------------------------------------
\* A refresh token that the provider has renewed is never given to it again, by
\* however many requests, unless a crash or a stale save of the credentials lost
\* the renewed one (access_token's row lock and second look).
SpentOnce ==
    [][history.lost \/ \A r \in Requests :
          SpendInVain(r) => req[r].copy.creds.grant \notin spent]_connVars

\* A disconnected connection holds no credentials and no subscriptions, and an active
\* one holds credentials, unless a request that was under way when it was disconnected
\* saved afterwards (disconnect against access_token, check_connection and finish).
CredentialsMatchStatus ==
    \/ history.revived
    \/ /\ conn.status = "disconnected" => conn.creds = NoCredentials /\ ~subscribed
       /\ conn.status = "active" => SignedIn(conn.creds)

\* Credentials are spent once, and agree with what the connection says of itself.
CredentialsInOrder == []CredentialsMatchStatus /\ SpentOnce
=============================================================================
