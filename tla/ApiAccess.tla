------------------------------ MODULE ApiAccess ------------------------------
(***************************************************************************)
(* Requests from outside that act as a member of staff: of scripts over    *)
(* the REST API (crm/api), with a token, and of assistants over the MCP    *)
(* server (crm/mcp), after a sign-in.  Each request reads the firm's       *)
(* switches, the token with its person, and the requests of the last hour, *)
(* one after the other, and then acts.                                     *)
(***************************************************************************)
EXTENDS Naturals, FiniteSets

CONSTANTS
    Callers,   \* requests under way
    HourLimit, \* API_HOURLY_LIMIT, MCP_HOURLY_LIMIT
    MaxTurns   \* bound on what staff change

ASSUME ApiAccessAssumption ==
    IsFiniteSet(Callers) /\ HourLimit \in Nat \ {0} /\ MaxTurns \in Nat

VARIABLES
    channel,   \* "api" or "mcp"
    switch,    \* ApiSettings or McpSettings
    person,    \* the member of staff; second: has the two-factor sign-in the firm requires
    token,     \* ApiToken, or an assistant's AccessToken
    withdrawn, \* staff have revoked it, or disconnected the assistant
    caller,    \* each request: step, what it wants, what it read, and whether it came late
    rows,      \* ApiRequestLog or McpToolCall rows of the last hour
    settings,  \* a settings page that is open, with the switches it shows
    turns      \* how often staff have changed anything

accessVars == <<channel, switch, person, token, withdrawn, caller, rows, settings, turns>>
byStaff == <<channel, rows>>

Switches == [on : BOOLEAN, more : BOOLEAN]  \* more: staff_tokens_allowed, write_tools_enabled
Scopes == {"read", "write", "bill"}
TokenRows == [state : {"none", "live", "expired", "revoked"}, scopes : SUBSET Scopes]
NoTicket == [state |-> "none", scopes |-> {}]
NoCall == [step |-> "idle", wants |-> "read", switch |-> [on |-> FALSE, more |-> FALSE],
           token |-> NoTicket, late |-> FALSE]
MaxRows == HourLimit + Cardinality(Callers)

AccessTypeOK ==
    /\ channel \in {"api", "mcp"}
    /\ switch \in Switches
    /\ person \in [active : BOOLEAN, manages : BOOLEAN, second : BOOLEAN, bills : BOOLEAN]
    /\ token \in TokenRows /\ withdrawn \in BOOLEAN
    /\ caller \in [Callers -> [step : {"idle", "begun", "known", "let_in", "counted", "acted",
                                       "refused"},
                               wants : Scopes, switch : Switches, token : TokenRows,
                               late : BOOLEAN]]
    /\ rows \in [acted : 0..MaxRows, refused : 0..MaxRows]
    /\ settings \in [open : BOOLEAN, shows : Switches]
    /\ turns \in 0..MaxTurns

----------------------------------------------------------------------------
\* Staff

Turn == turns < MaxTurns /\ turns' = turns + 1

\* Access is opened: a request under way may be let in after all.
Opens == caller' = [c \in Callers |-> [caller[c] EXCEPT !.late = FALSE]]

\* normalize: writing includes reading.  An assistant asks for crm:read or crm:write.
Normalized(scopes) == IF "write" \in scopes THEN scopes \cup {"read"} ELSE scopes

\* A token is created by its person; an assistant's sign-in is approved there.
MayCreate ==
    /\ person.active
    /\ IF channel = "api" THEN person.manages \/ switch.more ELSE switch.on

IssueToken(scopes) ==
    /\ Turn /\ MayCreate
    /\ token.state \in {"none", "revoked"}
    /\ channel = "mcp" => scopes # {"bill"}
    /\ token' = [state |-> "live", scopes |-> Normalized(scopes)]
    /\ withdrawn' = FALSE
    /\ Opens
    /\ UNCHANGED <<byStaff, switch, person, settings>>

\* api_token_revoke; disconnect, which takes the refresh tokens as well.
Revoke ==
    /\ Turn
    /\ token.state \in {"live", "expired"} /\ ~withdrawn
    /\ token' = [token EXCEPT !.state = "revoked"]
    /\ withdrawn' = TRUE
    /\ UNCHANGED <<byStaff, switch, person, caller, settings>>

\* Time passes; an assistant renews its access token.
Expires ==
    /\ token.state = "live"
    /\ token' = [token EXCEPT !.state = "expired"]
    /\ UNCHANGED <<byStaff, switch, person, withdrawn, caller, settings, turns>>

Renews ==
    /\ channel = "mcp" /\ token.state = "expired"
    /\ token' = [token EXCEPT !.state = "live"]
    /\ UNCHANGED <<byStaff, switch, person, withdrawn, caller, settings, turns>>

\* The settings page posts both switches as it shows them, but for the one that was changed.
OpenSwitches ==
    /\ ~settings.open
    /\ settings' = [open |-> TRUE, shows |-> switch]
    /\ UNCHANGED <<byStaff, switch, person, token, withdrawn, caller, turns>>

SaveSwitches(changed) ==
    /\ Turn /\ settings.open
    /\ switch' = [s \in {"on", "more"} |->
                    IF s = changed THEN ~settings.shows[s] ELSE settings.shows[s]]
    /\ IF \E s \in {"on", "more"} : switch'[s] /\ ~switch[s] THEN Opens ELSE UNCHANGED caller
    /\ settings' = [settings EXCEPT !.open = FALSE]
    /\ UNCHANGED <<byStaff, person, token, withdrawn>>

\* The person is deactivated or comes back, or loses a permission or a device; the firm
\* requires two-factor sign-in or no longer does.
ChangePerson(field) ==
    /\ Turn
    /\ person' = [person EXCEPT ![field] = ~@]
    /\ IF field = "active" /\ person'.active THEN Opens ELSE UNCHANGED caller
    /\ UNCHANGED <<byStaff, switch, token, withdrawn, settings>>

----------------------------------------------------------------------------
\* A request

Shut == ~switch.on \/ ~person.active \/ withdrawn

Goes(c, step) == caller' = [caller EXCEPT ![c].step = step]
Reads == <<channel, switch, person, token, withdrawn, settings, turns>>

\* ApiSettings.load, McpSettings.load: at first, and for good.
Begin(c, wants) ==
    /\ caller[c].step = "idle"
    /\ switch.on
    /\ caller' = [caller EXCEPT ![c] = [NoCall EXCEPT !.step = "begun", !.wants = wants,
                                           !.switch = switch, !.late = Shut]]
    /\ UNCHANGED <<Reads, rows>>

\* What is refused before the token is known is not counted against it, and an
\* assistant's only once a tool is called.
Dropped(c) == caller' = [caller EXCEPT ![c] = NoCall]
Refused(c) == IF channel = "api" THEN Goes(c, "refused") ELSE Dropped(c)

\* What the token gives, with its person, in one query.
Accepted(c) ==
    /\ token.state = "live"
    /\ person.active
    /\ channel = "api" => person.manages \/ caller[c].switch.more

SignIn(c) ==
    /\ caller[c].step = "begun"
    /\ IF token.state = "none" THEN Dropped(c)
       ELSE IF ~Accepted(c) THEN Refused(c)
       ELSE caller' = [caller EXCEPT ![c].step = "known", ![c].token = token]
    /\ UNCHANGED <<Reads, rows>>

\* require_scope; for assistants the tools that are available to them.
ApiScope(c) == caller[c].wants \in caller[c].token.scopes
AvailableTool(c) ==
    caller[c].wants = "write" => caller[c].switch.more /\ "write" \in caller[c].token.scopes

LetIn(c) ==
    /\ caller[c].step = "known"
    /\ IF /\ person.second
          /\ caller[c].wants = "bill" => person.bills
          /\ IF channel = "api" THEN ApiScope(c) ELSE AvailableTool(c)
       THEN Goes(c, "let_in")
       ELSE Refused(c)
    /\ UNCHANGED <<Reads, rows>>

BelowLimit == rows.acted + rows.refused < HourLimit

Count(c) ==
    /\ caller[c].step = "let_in"
    /\ Goes(c, IF BelowLimit THEN "counted" ELSE "refused")
    /\ UNCHANGED <<Reads, rows>>

\* Slip: mark_used saves the token as the request read it.
MarkUsedWhole(c) ==
    token' = IF token.state = "revoked" /\ caller[c].token.state = "live"
             THEN [token EXCEPT !.state = "live"] ELSE token

\* mark_used updates the time and address of use alone.
MarkUsed(c) == token' = token

Ends(c, how) ==
    /\ caller[c].step = "counted"
    /\ IF channel = "api" THEN MarkUsed(c) ELSE UNCHANGED token
    /\ Goes(c, how)
    /\ UNCHANGED <<channel, switch, person, withdrawn, settings, turns, rows>>

\* The view or the tool reads records, or adds or changes them in one transaction ...
ReadRecords(c) == caller[c].wants # "write" /\ Ends(c, "acted")
WriteRecords(c) == caller[c].wants = "write" /\ Ends(c, "acted")

\* ... or refuses what it was sent.
Declines(c) == Ends(c, "refused")

\* Only now there is a row that others count.
LogCall(c, kind) ==
    /\ caller[c].step = kind
    /\ rows.acted + rows.refused < MaxRows
    /\ rows' = [rows EXCEPT ![kind] = @ + 1]
    /\ Dropped(c)
    /\ UNCHANGED Reads

\* An hour later
RowAges(kind) ==
    /\ rows[kind] > 0
    /\ rows' = [rows EXCEPT ![kind] = @ - 1]
    /\ UNCHANGED <<Reads, caller>>

----------------------------------------------------------------------------
\* Someone has turned the channel on, and nobody has created a token or signed in.
AccessInit ==
    /\ channel \in {"api", "mcp"}
    /\ switch = [on |-> TRUE, more |-> TRUE]
    /\ person = [active |-> TRUE, manages |-> TRUE, second |-> TRUE, bills |-> TRUE]
    /\ token = NoTicket /\ withdrawn = FALSE
    /\ caller = [c \in Callers |-> NoCall]
    /\ rows = [acted |-> 0, refused |-> 0]
    /\ settings = [open |-> FALSE, shows |-> [on |-> FALSE, more |-> FALSE]]
    /\ turns = 0

AccessNext ==
    \/ \E scope \in Scopes : IssueToken({scope})
    \/ Revoke \/ Expires \/ Renews \/ OpenSwitches
    \/ \E changed \in {"on", "more"} : SaveSwitches(changed)
    \/ \E field \in {"active", "manages", "second", "bills"} : ChangePerson(field)
    \/ \E c \in Callers :
          \/ \E wants \in Scopes : Begin(c, wants)
          \/ SignIn(c) \/ LetIn(c) \/ Count(c)
          \/ ReadRecords(c) \/ WriteRecords(c) \/ Declines(c)
          \/ \E kind \in {"acted", "refused"} : LogCall(c, kind)
    \/ \E kind \in {"acted", "refused"} : RowAges(kind)

AccessSpec == AccessInit /\ [][AccessNext]_accessVars

----------------------------------------------------------------------------
\* A request that began after the channel was switched off, its person deactivated, or
\* the token withdrawn does nothing, unless access was opened again meanwhile: whatever
\* other requests still save (authenticate, mark_used, access_token).
NothingLate ==
    [][\A c \in Callers : ReadRecords(c) \/ WriteRecords(c) => ~caller[c].late]_accessVars

\* Requests that begin together pass the hourly limit by less than their number
\* (check_hourly_limit and call_tool count before the row is there).
LimitHeldButFor == rows.acted < HourLimit + Cardinality(Callers)

\* Access ends when staff end it, and stays within the limit.
AccessKept == []LimitHeldButFor /\ NothingLate
=============================================================================
