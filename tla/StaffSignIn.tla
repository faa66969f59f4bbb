----------------------------- MODULE StaffSignIn -----------------------------
(***************************************************************************)
(* How staff sign in, and their accounts.  The second step of one person's *)
(* sign-in (crm/two_factor.py, and its pages in crm/views.py): the         *)
(* authenticator device and its counter, the recovery codes, the lockout,  *)
(* and the sessions and requests that use them.  check_second_factor works *)
(* under the device's lock; the pages look at the device before, and act   *)
(* on the answer after.  Sign-in through the firm's identity provider      *)
(* (crm/connect/sign_in.py, connectors/oidc): the state a session keeps    *)
(* while its user is at the provider, and which account an identity opens. *)
(* One identity of the provider is followed, whose address may change as   *)
(* those of the accounts may.  And one staff account                       *)
(* (crm/team/services.py, views.py, forms.py, reset.py): inviting,         *)
(* editing, deactivating and reactivating it, the links its holder chooses *)
(* passwords by, and the work it is given.  A request reads the account's  *)
(* row when it begins; some save what they change, and the forms save the  *)
(* whole row as it was read.                                               *)
(***************************************************************************)
EXTENDS Integers, FiniteSets

----------------------------------------------------------------------------
\* The second step

CONSTANTS
    Sessions,      \* browser sessions of the person, one request at a time in each
    FailureLimit,  \* TWO_FACTOR_FAILURE_LIMIT
    MaxTime,       \* bound on the time steps of 30 seconds
    MaxSets        \* bound on the sets of recovery codes, and on the devices

ASSUME TwoFactorAssumption ==
    FailureLimit \in Nat \ {0} /\ MaxTime \in Nat \ {0} /\ MaxSets \in Nat

VARIABLES
    clock,    \* the counter of the present time step
    device,   \* TwoFactorDevice, and how many there have been
    spare,    \* unused recovery codes, one per set, by the number of the set
    sets,     \* how many sets of them there have been
    session,  \* how far each session is, and what its request has had checked
    used,     \* what was accepted as a second factor so far
    again,    \* something was accepted twice
    redone    \* a device that was confirmed has been confirmed once more

secondVars == <<clock, device, spare, sets, session, used, again, redone>>

Codes == {<<"app", c>> : c \in 1..(MaxTime + 1)}
            \cup {<<"spare", k>> : k \in 1..MaxSets} \cup {<<"wrong", 0>>}
Apart == [at |-> "out", verified |-> FALSE, doing |-> "nothing", saw |-> 0]

SecondTypeOK ==
    /\ clock \in 1..MaxTime
    /\ device \in [number : 0..MaxSets, there : BOOLEAN, confirmed : BOOLEAN,
                   last : 0..(MaxTime + 1), failed : 0..(FailureLimit - 1), locked : BOOLEAN]
    /\ spare \subseteq 1..sets /\ sets \in 0..MaxSets
    /\ session \in [Sessions -> [at : {"out", "pending", "in"}, verified : BOOLEAN,
                                 doing : {"nothing", "enrolling", "renewing", "turning_off"},
                                 saw : 0..MaxSets]]
    /\ used \subseteq (1..MaxSets) \X Codes
    /\ again \in BOOLEAN /\ redone \in BOOLEAN

----------------------------------------------------------------------------
\* Slip: the last counter that was accepted may be given again.
CodeMatchesAgain(c, after) == c >= after /\ c > 0 /\ c \in (clock - 1)..(clock + 1)

\* match_counter: one step early or late, and after the last one that was accepted.
CodeMatches(c, after) == c > after /\ c \in (clock - 1)..(clock + 1)

ByApp(code) == code[1] = "app" /\ CodeMatches(code[2], device.last)
BySpare(code) == code[1] = "spare" /\ code[2] \in spare

\* check_second_factor: what it answers, and what it leaves, under the device's lock.
Outcome(code) ==
    IF ~device.confirmed THEN "rejected"
    ELSE IF device.locked THEN "locked"
    ELSE IF ByApp(code) \/ BySpare(code) THEN "accepted"
    ELSE IF device.failed + 1 = FailureLimit THEN "locked" ELSE "rejected"

Uses(code) == <<IF code[1] = "app" THEN device.number ELSE 1, code>>

CheckSecondFactor(code) ==
    /\ device' =
         IF ~device.confirmed \/ device.locked THEN device
         ELSE IF ByApp(code) THEN [device EXCEPT !.failed = 0, !.last = code[2]]
         ELSE IF BySpare(code) THEN [device EXCEPT !.failed = 0]
         ELSE IF device.failed + 1 = FailureLimit
              THEN [device EXCEPT !.failed = 0, !.locked = TRUE]
              ELSE [device EXCEPT !.failed = @ + 1]
    /\ IF Outcome(code) = "accepted"
       THEN /\ spare' = IF ByApp(code) THEN spare ELSE spare \ {code[2]}
            /\ used' = used \cup {Uses(code)}
            /\ again' = (again \/ Uses(code) \in used)
       ELSE UNCHANGED <<spare, used, again>>
    /\ UNCHANGED <<clock, sets, redone>>

Goes(s, state) == session' = [session EXCEPT ![s] = state]
NoRequest(s) == session[s].doing = "nothing"
Does(s, what) == Goes(s, [session[s] EXCEPT !.doing = what, !.saw = 0])
Unchecked == UNCHANGED <<clock, device, spare, sets, used, again, redone>>

----------------------------------------------------------------------------
\* FirstRunAwareLoginView and sign_in.finish: with a confirmed device the session waits at
\* the second step, unless the provider has seen to one.
SignIn(s, strong) ==
    /\ session[s] = Apart
    /\ Goes(s, [at |-> IF device.confirmed /\ ~strong THEN "pending" ELSE "in",
                verified |-> strong, doing |-> "nothing", saw |-> 0])
    /\ Unchecked

\* two_factor_verify
Verify(s, code) ==
    /\ session[s].at = "pending"
    /\ CheckSecondFactor(code)
    /\ Goes(s, CASE Outcome(code) = "accepted" ->
                      [session[s] EXCEPT !.at = "in", !.verified = TRUE]
                 [] Outcome(code) = "locked" -> Apart
                 [] OTHER -> session[s])

\* Signing out, a pending step that timed out, and RequireTwoFactorMiddleware on the next
\* request of a session that has not passed the step.
Leave(s) ==
    /\ session[s].at # "out" /\ NoRequest(s)
    /\ Goes(s, Apart)
    /\ Unchecked

Allowed(s) == session[s].at = "in" /\ NoRequest(s) /\ (session[s].verified \/ ~device.confirmed)

\* two_factor_settings makes a device if there is none, and sees that it is not confirmed.
BeginEnrolling(s) ==
    /\ Allowed(s) /\ ~device.confirmed
    /\ device.there \/ device.number < MaxSets
    /\ device' = IF device.there THEN device
                 ELSE [number |-> device.number + 1, there |-> TRUE, confirmed |-> FALSE,
                       last |-> 0, failed |-> 0, locked |-> FALSE]
    /\ Goes(s, [session[s] EXCEPT !.doing = "enrolling", !.saw = device'.number])
    /\ UNCHANGED <<clock, spare, sets, used, again, redone>>

NewSet == sets < MaxSets /\ sets' = sets + 1 /\ spare' = {sets + 1}

\* confirm_device looks at the code under the lock, but not at whether the device has been
\* confirmed meanwhile, and gives new recovery codes.
Confirm(s, c) ==
    /\ session[s].doing = "enrolling" /\ device.there /\ session[s].saw = device.number
    /\ IF CodeMatches(c, 0)
       THEN /\ device' = [device EXCEPT !.confirmed = TRUE, !.last = c]
            /\ NewSet
            /\ used' = used \cup {<<device.number, <<"app", c>>>>}
            /\ redone' = (redone \/ device.confirmed)
            /\ Goes(s, [at |-> "in", verified |-> TRUE, doing |-> "nothing", saw |-> 0])
       ELSE /\ Does(s, "nothing")
            /\ UNCHANGED <<device, spare, sets, used, redone>>
    /\ UNCHANGED <<clock, again>>

\* two_factor_recovery_codes and two_factor_disable have a code checked first.
CheckFirst(s, what, code) ==
    /\ Allowed(s) /\ what \in {"renewing", "turning_off"}
    /\ CheckSecondFactor(code)
    /\ IF Outcome(code) = "accepted" THEN Does(s, what) ELSE UNCHANGED session

\* replace_recovery_codes
Renew(s) ==
    /\ session[s].doing = "renewing"
    /\ NewSet
    /\ Does(s, "nothing")
    /\ UNCHANGED <<clock, device, used, again, redone>>

NoDevice == [device EXCEPT !.there = FALSE, !.confirmed = FALSE, !.last = 0, !.failed = 0,
                           !.locked = FALSE]

\* reset_two_factor, unless the password was wrong.
TurnOff(s, right) ==
    /\ session[s].doing = "turning_off"
    /\ IF right
       THEN /\ device' = NoDevice /\ spare' = {}
            /\ Goes(s, [session[s] EXCEPT !.doing = "nothing", !.verified = FALSE])
       ELSE UNCHANGED <<device, spare>> /\ Does(s, "nothing")
    /\ UNCHANGED <<clock, sets, used, again, redone>>

\* person_two_factor_reset, by whoever manages staff
Reset ==
    /\ device.there
    /\ device' = NoDevice /\ spare' = {}
    /\ UNCHANGED <<clock, sets, session, used, again, redone>>

\* A request is lost, or finds its device gone.
Abandon(s) ==
    /\ ~NoRequest(s)
    /\ Does(s, "nothing")
    /\ Unchecked

\* The next 30 seconds; the lockout may end.
Tick(unlock) ==
    /\ clock < MaxTime
    /\ clock' = clock + 1
    /\ device' = IF unlock THEN [device EXCEPT !.locked = FALSE] ELSE device
    /\ UNCHANGED <<spare, sets, session, used, again, redone>>

SecondInit ==
    /\ clock = 1
    /\ device = [number |-> 0, there |-> FALSE, confirmed |-> FALSE, last |-> 0, failed |-> 0,
                 locked |-> FALSE]
    /\ spare = {} /\ sets = 0
    /\ session = [s \in Sessions |-> Apart]
    /\ used = {} /\ again = FALSE /\ redone = FALSE

SecondNext ==
    \/ \E s \in Sessions :
          \/ \E yes \in BOOLEAN : SignIn(s, yes) \/ TurnOff(s, yes)
          \/ Leave(s) \/ BeginEnrolling(s) \/ Renew(s) \/ Abandon(s)
          \/ \E c \in 1..(MaxTime + 1) : Confirm(s, c)
          \/ \E code \in Codes :
                Verify(s, code) \/ \E what \in {"renewing", "turning_off"} :
                                      CheckFirst(s, what, code)
    \/ Reset
    \/ \E unlock \in BOOLEAN : Tick(unlock)

SecondSpec == SecondInit /\ [][SecondNext]_secondVars

----------------------------------------------------------------------------
\* No code of the app or the recovery codes lets anyone in twice, in whatever session and
\* however requests cross, unless one device was confirmed twice (check_second_factor's
\* lock, the last counter, used_at; confirm_device does not look again).
CodesWorkOnce == again => redone

----------------------------------------------------------------------------
\* The identity provider

CONSTANTS
    People,    \* staff accounts
    Mails,     \* email addresses in the firm's domains
    Browsers,  \* sessions in which the identity signs in
    NoAccount     \* no account

ASSUME ProviderSignInAssumption == NoAccount \notin People /\ Mails # {}

VARIABLES
    offered,  \* the connection puts a button on the sign-in page
    account,  \* each account's address, and whether it is active
    given,    \* the identity's address, and whether the provider vouches for it
    link,     \* SignInLink of the identity's issuer and subject
    visit,    \* each session: what it has pending, and the account it is to open
    opened    \* accounts the identity has opened

providerVars == <<offered, account, given, link, visit, opened>>

Visits == [at : {"out", "away", "matched"}, who : People \cup {NoAccount}]
Out == [at |-> "out", who |-> NoAccount]

ProviderTypeOK ==
    /\ offered \in BOOLEAN
    /\ account \in [People -> [mail : Mails, active : BOOLEAN]]
    /\ given \in [mail : Mails, vouched : BOOLEAN]
    /\ link \in People \cup {NoAccount}
    /\ visit \in [Browsers -> Visits]
    /\ opened \subseteq People

----------------------------------------------------------------------------
\* start: the session keeps a state, a nonce and a verifier of its own.
Start(b) ==
    /\ offered /\ visit[b].at = "out"
    /\ visit' = [visit EXCEPT ![b] = [at |-> "away", who |-> NoAccount]]
    /\ UNCHANGED <<offered, account, given, link, opened>>

\* identity takes an address for verified only if the provider says it is.
EmailVerified == given.vouched

\* The accounts an identity that has no link may be matched to.
AccountsMatched == {p \in People : account[p].active /\ account[p].mail = given.mail}

\* callback takes the pending state out of the session whatever comes of it.  An answer
\* that is late, refused, or of a connection turned off opens nothing ...
OpensNothing(b) ==
    /\ visit[b].at = "away"
    /\ visit' = [visit EXCEPT ![b] = Out]
    /\ UNCHANGED <<offered, account, given, link, opened>>

Refused(b) == OpensNothing(b)

\* ... nor does one that fails verify_sign_in's checks of its token.
NotVerified(b) == offered /\ OpensNothing(b)

\* staff_account of an identity with a link: the account's address does not matter.
OpenLinked(b) ==
    /\ visit[b].at = "away" /\ offered
    /\ link # NoAccount
    /\ visit' = [visit EXCEPT ![b] = Out]
    /\ opened' = IF account[link].active THEN opened \cup {link} ELSE opened
    /\ UNCHANGED <<offered, account, given, link>>

\* staff_account of one that has none: its vouched address names exactly one account.
MatchAccount(b) ==
    /\ visit[b].at = "away" /\ offered
    /\ link = NoAccount
    /\ IF EmailVerified /\ Cardinality(AccountsMatched) = 1
       THEN \E p \in AccountsMatched :
               visit' = [visit EXCEPT ![b] = [at |-> "matched", who |-> p]]
       ELSE visit' = [visit EXCEPT ![b] = Out]
    /\ UNCHANGED <<offered, account, given, link, opened>>

\* Slip: the account that was matched is opened, although another has been linked since.
OpenMatched(b) ==
    /\ visit[b].at = "matched"
    /\ link' = IF link = NoAccount THEN visit[b].who ELSE link
    /\ opened' = opened \cup {visit[b].who}
    /\ visit' = [visit EXCEPT ![b] = Out]
    /\ UNCHANGED <<offered, account, given>>

\* get_or_create: the link that is there, whoever made it, says which account is opened.
LinkAndOpen(b) ==
    /\ visit[b].at = "matched"
    /\ link' = IF link = NoAccount THEN visit[b].who ELSE link
    /\ opened' = opened \cup {link'}
    /\ visit' = [visit EXCEPT ![b] = Out]
    /\ UNCHANGED <<offered, account, given>>

----------------------------------------------------------------------------
\* Meanwhile addresses change, at the firm and at the provider, accounts are deactivated
\* and taken back, and the connection is turned off and on.
ChangeAccount(p, mail, active) ==
    /\ account' = [account EXCEPT ![p] = [mail |-> mail, active |-> active]]
    /\ account' # account
    /\ UNCHANGED <<offered, given, link, visit, opened>>

ChangeIdentity(mail, vouched) ==
    /\ given' = [mail |-> mail, vouched |-> vouched]
    /\ given' # given
    /\ UNCHANGED <<offered, account, link, visit, opened>>

ChangeOffer ==
    /\ offered' = ~offered
    /\ UNCHANGED <<account, given, link, visit, opened>>

ProviderInit ==
    /\ offered = TRUE /\ link = NoAccount /\ opened = {}
    /\ account \in [People -> [mail : Mails, active : {TRUE}]]
    /\ given \in [mail : Mails, vouched : {TRUE}]
    /\ visit = [b \in Browsers |-> Out]

ProviderNext ==
    \/ \E b \in Browsers :
          Start(b) \/ Refused(b) \/ NotVerified(b)
          \/ OpenLinked(b) \/ MatchAccount(b) \/ LinkAndOpen(b)
    \/ \E mail \in Mails, yes \in BOOLEAN :
          ChangeIdentity(mail, yes) \/ \E p \in People : ChangeAccount(p, mail, yes)
    \/ ChangeOffer

ProviderSpec == ProviderInit /\ [][ProviderNext]_providerVars

----------------------------------------------------------------------------
\* An identity opens one account, whatever addresses it and the accounts come to have and
\* however its first sign-ins cross (sign_in.py, staff_account).
OneAccountEach == opened \subseteq {link}

\* A sign-in's second step and its account: a code works once, and one account answers to
\* one person at the provider (two_factor.py, connect/sign_in.py).
SignInsKept == CodesWorkOnce /\ OneAccountEach

----------------------------------------------------------------------------
\* The team

CONSTANTS
    Visitors,      \* requests at work at once
    MaxPasswords,  \* bound on the password hashes there have been
    MaxSignIns     \* bound on the sign-ins

ASSUME TeamAssumption == MaxPasswords \in Nat /\ MaxSignIns \in Nat

VARIABLES
    person,       \* the account: active, password hash and whether usable, last sign-in
    hashes,       \* how many password hashes there have been
    work,         \* open work, matters or contacts are the person's
    invitations,  \* links by the hash they were made from, before any sign-in
    visitor,      \* what each request does, and what it has read
    wanted,       \* whoever manages staff left the account active
    overtook      \* a request saved over a row that had changed since it read it

teamVars == <<person, hashes, work, invitations, visitor, wanted, overtook>>

StaffRows ==
    [active : BOOLEAN, hash : 0..MaxPasswords, usable : BOOLEAN,
     seen : 0..MaxSignIns]
Added == [active |-> TRUE, hash |-> 0, usable |-> FALSE, seen |-> 0]
NoVisit == [job |-> "none", row |-> Added, had |-> FALSE]
WholeRow == {"edit", "choose", "profile"}
TeamJobs ==
    WholeRow \cup {"deactivate", "hand_over", "reactivate", "invite", "sign_in", "assign"}

TeamTypeOK ==
    /\ person \in StaffRows /\ hashes \in person.hash..MaxPasswords
    /\ work \in BOOLEAN /\ wanted \in BOOLEAN /\ overtook \in BOOLEAN
    /\ invitations \subseteq 0..MaxPasswords
    /\ visitor \in [Visitors -> [job : TeamJobs \cup {"none"}, row : StaffRows, had : BOOLEAN]]

----------------------------------------------------------------------------
\* The token of a link is made from the password's hash and the last sign-in.
Good(l) == l = person.hash /\ person.seen = 0

\* is_invited
Invited == person.seen = 0 /\ ~person.usable

\* send_links mails a link for a new password to active staff.
GetsLink == person.active

\* What each page asks for before it goes on.  A password is chosen by an invitation or
\* by a reset link, and reset.send_links may have made one from the row as it is.
MayBegin(job) ==
    CASE job = "deactivate" -> person.active
      [] job = "invite" -> person.active /\ Invited /\ hashes < MaxPasswords
      [] job = "choose" -> GetsLink /\ hashes < MaxPasswords
      [] job = "sign_in" -> person.active /\ person.usable /\ person.seen < MaxSignIns
      [] job = "profile" -> person.active /\ person.seen > 0
      [] job = "assign" -> person.active
      [] OTHER -> TRUE

BeginVisit(v, job) ==
    /\ visitor[v].job = "none" /\ job # "hand_over" /\ MayBegin(job)
    /\ visitor' = [visitor EXCEPT ![v] = [job |-> job, row |-> person, had |-> FALSE]]
    /\ UNCHANGED <<person, hashes, work, invitations, wanted, overtook>>

EndsVisit(v) == visitor' = [visitor EXCEPT ![v] = NoVisit]
Behind(v) == visitor[v].row # person

\* AccountFields.save is a whole save, on person_detail and on profile.
SaveAccountForm(v) ==
    /\ person' = visitor[v].row
    /\ overtook' = (overtook \/ Behind(v))
    /\ EndsVisit(v)
    /\ UNCHANGED <<hashes, work, invitations, wanted>>

SavePerson(v) == visitor[v].job = "edit" /\ SaveAccountForm(v)
SaveProfile(v) == visitor[v].job = "profile" /\ SaveAccountForm(v)

\* ChoosePasswordView: set_password, and a whole save.
ChoosePassword(v) ==
    /\ visitor[v].job = "choose"
    /\ hashes < MaxPasswords /\ hashes' = hashes + 1
    /\ person' = [visitor[v].row EXCEPT !.hash = hashes', !.usable = TRUE]
    /\ overtook' = (overtook \/ Behind(v))
    /\ EndsVisit(v)
    /\ UNCHANGED <<work, invitations, wanted>>

\* services.invite saves an unusable password, which ends every earlier link.
Invite(v) ==
    /\ visitor[v].job = "invite"
    /\ hashes < MaxPasswords /\ hashes' = hashes + 1
    /\ person' = [person EXCEPT !.hash = hashes', !.usable = FALSE]
    /\ invitations' = invitations \cup {hashes'}
    /\ overtook' = (overtook \/ Behind(v))
    /\ EndsVisit(v)
    /\ UNCHANGED <<work, wanted>>

ExpireLink(l) ==
    /\ l \in invitations
    /\ invitations' = invitations \ {l}
    /\ UNCHANGED <<person, hashes, work, visitor, wanted, overtook>>

\* Slip: signing in saves the account as it was read.
LogInWholeRow(v) ==
    /\ visitor[v].job = "sign_in" /\ person.seen < MaxSignIns
    /\ person' = [visitor[v].row EXCEPT !.seen = person.seen + 1]
    /\ overtook' = (overtook \/ Behind(v))
    /\ EndsVisit(v)
    /\ UNCHANGED <<hashes, work, invitations, wanted>>

\* login saves the last sign-in alone.
LogIn(v) ==
    /\ visitor[v].job = "sign_in" /\ person.seen < MaxSignIns
    /\ person' = [person EXCEPT !.seen = @ + 1]
    /\ EndsVisit(v)
    /\ UNCHANGED <<hashes, work, invitations, wanted, overtook>>

\* services.deactivate looks what is the person's, and then hands it over and ends the
\* access, in one transaction.
LookForWork(v) ==
    /\ visitor[v].job = "deactivate"
    /\ visitor' = [visitor EXCEPT ![v].job = "hand_over", ![v].had = work]
    /\ UNCHANGED <<person, hashes, work, invitations, wanted, overtook>>

HandOver(v) ==
    /\ visitor[v].job = "hand_over"
    /\ work' = (work /\ ~visitor[v].had)
    /\ person' = [person EXCEPT !.active = FALSE]
    /\ wanted' = FALSE
    /\ overtook' = (overtook \/ work # visitor[v].had)
    /\ EndsVisit(v)
    /\ UNCHANGED <<hashes, invitations>>

Reactivate(v) ==
    /\ visitor[v].job = "reactivate"
    /\ person' = [person EXCEPT !.active = TRUE]
    /\ wanted' = TRUE
    /\ EndsVisit(v)
    /\ UNCHANGED <<hashes, work, invitations, overtook>>

\* A form that offers active staff gives the person work, or takes it from them.
Assign(v, yes) ==
    /\ visitor[v].job = "assign"
    /\ work' = yes
    /\ overtook' = (overtook \/ (yes /\ ~person.active))
    /\ EndsVisit(v)
    /\ UNCHANGED <<person, hashes, invitations, wanted>>

AbandonVisit(v) ==
    /\ visitor[v].job # "none"
    /\ EndsVisit(v)
    /\ UNCHANGED <<person, hashes, work, invitations, wanted, overtook>>

TeamInit ==
    /\ person = Added /\ hashes = 0
    /\ invitations = {0}
    /\ work = FALSE /\ wanted = TRUE /\ overtook = FALSE
    /\ visitor = [v \in Visitors |-> NoVisit]

TeamNext ==
    \/ \E v \in Visitors :
          \/ SavePerson(v) \/ SaveProfile(v)
          \/ ChoosePassword(v) \/ Invite(v) \/ LogIn(v) \/ LookForWork(v)
          \/ HandOver(v) \/ Reactivate(v) \/ AbandonVisit(v)
          \/ \E job \in TeamJobs : BeginVisit(v, job)
          \/ \E yes \in BOOLEAN : Assign(v, yes)
    \/ \E l \in invitations : ExpireLink(l)

TeamSpec == TeamInit /\ [][TeamNext]_teamVars

----------------------------------------------------------------------------
\* Unless requests cross, the account is active as it was left, one that is not has no open
\* work, and no invitation works but the last (team/services.py, deactivate and invite).
AccountInOrder ==
    \/ overtook
    \/ /\ person.active = wanted
       /\ work => person.active
       /\ \A k, l \in invitations : Good(l) => k <= l

\* Even if they do, a deactivated account is active again only by reactivating it, or by
\* a form or link whose request had read it before it was deactivated.
BackIfReactivated ==
    [][~person.active /\ person'.active =>
          \E v \in Visitors :
             /\ visitor[v].job # "none" /\ visitor'[v].job = "none"
             /\ visitor[v].job = "reactivate"
                   \/ (visitor[v].job \in WholeRow /\ visitor[v].row.active)]_teamVars

\* An account is as whoever manages staff left it.
TeamInOrder == []AccountInOrder /\ BackIfReactivated
=============================================================================
