------------------------------ MODULE DueChecks ------------------------------
(***************************************************************************)
(* Numbers that core asks connectors to check, oldest first: receipt       *)
(* numbers of open matters (crm/notices) by USCIS, tracking numbers of     *)
(* packages (crm/shipments) by UPS one at a time, and by USPS and FedEx in *)
(* batches.  What matters is that no number is left out for ever because   *)
(* of others that get no answer.                                           *)
(*                                                                         *)
(* And the access token under which they ask: a run's connector gets one   *)
(* with the client's keys, uses it until it nearly expires, and gets       *)
(* another once when a request is refused.                                 *)
(***************************************************************************)
EXTENDS Naturals, Sequences, FiniteSets, SequencesExt

CONSTANTS
    Numbers,     \* receipt or tracking numbers
    PerRun,      \* the most numbers one run asks about (BATCH_SIZE of USCIS, PER_RUN)
    BatchSize,   \* the most numbers in a request to USPS or FedEx
    MaxFailures  \* a USCIS run stops after this many in a row get no answer

ASSUME DueChecksAssumption ==
    /\ IsFiniteSet(Numbers)
    /\ PerRun \in Nat \ {0} /\ BatchSize \in Nat \ {0}
    /\ MaxFailures \in Nat \ {0, 1}

VARIABLES
    source,    \* which connector asks, if any: "uscis", "ups", "batches" or "none"
    silent,    \* the numbers the provider does not answer for
    tracked,   \* numbers of open matters, or of packages under way
    oldest,    \* the numbers in the order of their last check
    resting,   \* those checked so lately that they are not due
    run        \* the run under way: numbers left to ask, results, failures in a row

dueVars == <<source, silent, tracked, oldest, resting, run>>

Sources == {"none", "uscis", "ups", "batches"}
Idling == [on |-> FALSE, left |-> <<>>, records |-> <<>>, failures |-> 0]

DueChecksTypeOK ==
    /\ source \in Sources
    /\ silent \subseteq Numbers /\ tracked \subseteq Numbers /\ resting \subseteq Numbers
    /\ oldest \in [1..Cardinality(Numbers) -> Numbers] /\ ToSet(oldest) = Numbers
    /\ run.on \in BOOLEAN /\ run.failures \in 0..MaxFailures
    /\ ToSet(run.left \o run.records) \subseteq Numbers
    /\ Len(run.left \o run.records) <= PerRun

----------------------------------------------------------------------------
\* What is due

FirstOf(seq, n) == SubSeq(seq, 1, IF Len(seq) < n THEN Len(seq) ELSE n)

\* Slip: the whole list is asked about.
DueWithoutLimit == SelectSeq(oldest, LAMBDA n : n \in tracked \ resting)

\* receipts_to_check and shipments_to_check: the longest unchecked come first.
Due == FirstOf(SelectSeq(oldest, LAMBDA n : n \in tracked \ resting), PerRun)

StartChecks ==
    /\ source # "none" /\ ~run.on
    /\ Due # <<>>
    /\ run' = [Idling EXCEPT !.on = TRUE, !.left = Due]
    /\ UNCHANGED <<source, silent, tracked, oldest, resting>>

\* Results of a request for the first n numbers.
Results(n) == run' = [run EXCEPT !.left = SubSeq(@, n + 1, Len(@)),
                                 !.records = @ \o FirstOf(run.left, n),
                                 !.failures = 0]

\* The provider answers for the number asked about.
Answer ==
    /\ run.left # <<>>
    /\ source # "batches"
    /\ Head(run.left) \notin silent
    /\ Results(1)
    /\ UNCHANGED <<source, silent, tracked, oldest, resting>>

\* Slip: a number without an answer gets no result.
PassOver ==
    /\ run.left # <<>>
    /\ source # "batches"
    /\ source = "ups" \/ run.failures + 1 < MaxFailures
    /\ run' = [run EXCEPT !.left = Tail(@), !.failures = IF source = "ups" THEN 0 ELSE @ + 1]
    /\ UNCHANGED <<source, silent, tracked, oldest, resting>>

\* No answer is a result too, the problem "unavailable", until too many in a row are missing.
Unavailable ==
    /\ run.left # <<>>
    /\ source # "batches"
    /\ source = "ups" \/ run.failures + 1 < MaxFailures
    /\ run' = [run EXCEPT !.left = Tail(@), !.records = Append(@, Head(run.left)),
                          !.failures = IF source = "ups" THEN 0 ELSE @ + 1]
    /\ UNCHANGED <<source, silent, tracked, oldest, resting>>

\* USCIS: one too many, or the token, access or rate was refused; what was asked is kept.
StopEarly ==
    /\ run.left # <<>>
    /\ source = "uscis"
    /\ run.records # <<>>
    /\ run' = [run EXCEPT !.left = <<>>]
    /\ UNCHANGED <<source, silent, tracked, oldest, resting>>

\* The run fails: without any result, with a refused token, or with a refused request.
FailChecks ==
    /\ run.left # <<>>
    /\ source = "uscis" => run.records = <<>>
    /\ run' = Idling
    /\ UNCHANGED <<source, silent, tracked, oldest, resting>>

\* USPS and FedEx answer for every number of a request, if only "not found".
AnswerBatch ==
    /\ run.left # <<>>
    /\ source = "batches"
    /\ ToSet(FirstOf(run.left, BatchSize)) \cap silent = {}
    /\ Results(IF Len(run.left) < BatchSize THEN Len(run.left) ELSE BatchSize)
    /\ UNCHANGED <<source, silent, tracked, oldest, resting>>

\* Every result is stored with its time, whatever it is, and also when the matter was
\* closed meanwhile.
StoreChecks ==
    /\ run.on /\ run.left = <<>>
    /\ oldest' = SelectSeq(oldest, LAMBDA n : n \notin ToSet(run.records)) \o run.records
    /\ resting' = resting \cup ToSet(run.records)
    /\ run' = Idling
    /\ UNCHANGED <<source, silent, tracked>>

----------------------------------------------------------------------------
\* RECHECK_AFTER passes.
BecomesDue(n) ==
    /\ n \in resting
    /\ resting' = resting \ {n}
    /\ UNCHANGED <<source, silent, tracked, oldest, run>>

\* A matter is closed or opened again, a package settled, or a number entered.
SetTracked(n) ==
    /\ tracked' = IF n \in tracked THEN tracked \ {n} ELSE tracked \cup {n}
    /\ UNCHANGED <<source, silent, oldest, resting, run>>

----------------------------------------------------------------------------
DueChecksInit ==
    /\ source \in Sources
    /\ silent \in SUBSET Numbers
    /\ tracked = Numbers
    /\ oldest \in SetToSeqs(Numbers)
    /\ resting = {}
    /\ run = Idling

DueChecksNext ==
    \/ StartChecks \/ Answer \/ Unavailable \/ StopEarly \/ FailChecks \/ AnswerBatch
    \/ StoreChecks
    \/ \E n \in Numbers : BecomesDue(n) \/ SetTracked(n)

Asked(n) == run.left # <<>> /\ run.left[1] = n

\* The scheduler starts runs, they end, time passes, and a provider that is asked
\* again and again answers now and then.
DueChecksFairness ==
    /\ WF_dueVars(StartChecks) /\ WF_dueVars(StoreChecks)
    /\ WF_dueVars(Answer \/ Unavailable \/ StopEarly \/ FailChecks \/ AnswerBatch)
    /\ \A n \in Numbers : WF_dueVars(BecomesDue(n))
    /\ \A n \in Numbers : SF_dueVars(Asked(n) /\ (Answer \/ Unavailable \/ AnswerBatch))

DueChecksSpec == DueChecksInit /\ [][DueChecksNext]_dueVars /\ DueChecksFairness

----------------------------------------------------------------------------
\* A number that stays tracked is checked again and again, whatever becomes of the
\* others (the order of the due lists and the "unavailable" results), when a connector
\* asks at all and no request for a batch is refused because of one number in it.
NobodyStarves ==
    \A n \in Numbers :
        <>[](n \in tracked) =>
            []<>(n \in resting \/ source = "none" \/ (source = "batches" /\ silent # {}))

----------------------------------------------------------------------------
\* The access tokens

CONSTANTS
    MaxTokens,  \* bound on the tokens granted
    MaxTime,    \* bound on the time
    Lifetimes,  \* how long a token may last
    Margin      \* how long before its end a token is renewed, and the least it is used for

ASSUME TokensAssumption ==
    /\ MaxTokens \in Nat /\ MaxTime \in Nat
    /\ Lifetimes \subseteq Nat /\ Margin \in Nat \ {0}

VARIABLES
    time,    \* what time it is
    grants,  \* the tokens granted: when each ends, and whether the provider ended it
    purse,   \* the token the connector holds, and until when it uses it
    lookup   \* the lookup under way, or how the last one ended

tokenVars == <<time, grants, purse, lookup>>

TokenIds == 1..MaxTokens
NoToken == [token |-> 0, until |-> 0]
LookupEnded == {"answered", "refused", "no_token"}
NoLookup == [step |-> "answered", renew |-> FALSE, got |-> 0, sent |-> 0]

TokensTypeOK ==
    /\ time \in 0..MaxTime
    /\ grants \in Seq([ends : Nat, ended : BOOLEAN]) /\ Len(grants) <= MaxTokens
    /\ purse \in [token : 0..MaxTokens, until : Nat]
    /\ lookup \in [step : {"asking", "holding"} \cup LookupEnded, renew : BOOLEAN,
                   got : 0..2, sent : 0..2]

Works(token) == token \in DOMAIN grants /\ time < grants[token].ends /\ ~grants[token].ended

BeginLookup ==
    /\ lookup.step \in LookupEnded
    /\ lookup' = [NoLookup EXCEPT !.step = "asking"]
    /\ UNCHANGED <<time, grants, purse>>

\* access_token: the token at hand, unless another is asked for.
HasToken == purse.token # 0 /\ ~lookup.renew /\ time < purse.until

UseToken ==
    /\ lookup.step = "asking" /\ HasToken
    /\ lookup' = [lookup EXCEPT !.step = "holding"]
    /\ UNCHANGED <<time, grants, purse>>

UsedFor(lifetime) == IF lifetime > 2 * Margin THEN lifetime - Margin ELSE Margin

GetToken(lifetime) ==
    /\ lookup.step = "asking" /\ ~HasToken
    /\ Len(grants) < MaxTokens
    /\ grants' = Append(grants, [ends |-> time + lifetime, ended |-> FALSE])
    /\ purse' = [token |-> Len(grants) + 1, until |-> time + UsedFor(lifetime)]
    /\ lookup' = [lookup EXCEPT !.step = "holding", !.got = @ + 1]
    /\ UNCHANGED time

\* The provider does not accept the keys, or does not answer with a token.
NoGrant ==
    /\ lookup.step = "asking" /\ ~HasToken
    /\ lookup' = [lookup EXCEPT !.step = "no_token"]
    /\ UNCHANGED <<time, grants, purse>>

\* Slip: a refused request is sent again under the same token.
SentAsBefore == [lookup EXCEPT !.step = "asking", !.sent = @ + 1]

\* fetch, lookup and track: a refused token is renewed, once.
SentAnew == [lookup EXCEPT !.step = "asking", !.renew = TRUE, !.sent = @ + 1]

SendLookup ==
    /\ lookup.step = "holding"
    /\ lookup' = IF Works(purse.token) THEN [lookup EXCEPT !.step = "answered"]
                 ELSE IF lookup.sent = 0 THEN SentAnew ELSE [lookup EXCEPT !.step = "refused"]
    /\ UNCHANGED <<time, grants, purse>>

\* At the provider.
TimePasses ==
    /\ time < MaxTime
    /\ time' = time + 1
    /\ UNCHANGED <<grants, purse, lookup>>

EndToken(token) ==
    /\ token \in DOMAIN grants
    /\ grants' = [grants EXCEPT ![token].ended = TRUE]
    /\ UNCHANGED <<time, purse, lookup>>

\* The next run makes another connector, which holds no token.
NextRun ==
    /\ lookup.step \in LookupEnded
    /\ purse' = NoToken
    /\ lookup' = NoLookup
    /\ UNCHANGED <<time, grants>>

TokensInit ==
    /\ time = 0
    /\ grants = <<>> /\ purse = NoToken
    /\ lookup = NoLookup

TokensNext ==
    \/ BeginLookup \/ UseToken \/ NoGrant \/ SendLookup
    \/ \E lifetime \in Lifetimes : GetToken(lifetime)
    \/ TimePasses \/ NextRun
    \/ \E token \in TokenIds : EndToken(token)

TokensSpec == TokensInit /\ [][TokensNext]_tokenVars

----------------------------------------------------------------------------
\* A lookup is refused only under a token that was granted for it and has ended since: one
\* that was held too long, or that the provider ended between two lookups, costs a second
\* request and no result (access_token with renew).
StaleTokenRenewed ==
    lookup.step = "refused" => lookup.got > 0 /\ ~Works(purse.token)
=============================================================================
