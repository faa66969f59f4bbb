---------------------------- MODULE ConnectProofs ----------------------------
(***************************************************************************)
(* What holds of the parts of MCConnect, for every value of the constants: *)
(* a connection's credentials (Connections), consent and the log           *)
(* (Communications), signature requests (Signatures), the second step of   *)
(* the sign-in, the identity provider and a staff account (StaffSignIn),   *)
(* shipments (Shipments), the client's messages (Messages) and a           *)
(* connection's webhook at the provider (WebhookSetup).  The rest is in    *)
(* ProviderProofs.                                                         *)
(***************************************************************************)
EXTENDS TLAPS, MCConnect, FiniteSetTheorems, SequenceTheorems

----------------------------------------------------------------------------
\* Credentials.  One request holds the row at most; the copies of the others say nothing
\* against it, and a token a request has not saved yet is nobody else's.

Locals == [step : Steps \cup {"idle"}, goal : Goals, copy : Rows]
GrantOf(r) == req[r].copy.creds.grant

\* A request that has a new token, which it has not saved yet.
HasNew(r) == req[r].step \in {"renewed", "signed_in"}

\* At most one request holds the row.
OneHolder == \A q, r \in Requests : HoldsRow(q) /\ HoldsRow(r) => q = r

\* What the copies say of the row: it is as the holder has read it; who does nothing has no
\* copy; a call passes with credentials only; and a request that nobody disconnected under has credentials only if
\* the row has some, unless they come from a sign-in it still has to save.
CopiesInOrder ==
    \A r \in Requests :
        /\ At(r, "idle") => GrantOf(r) = 0
        /\ At(r, "locked") => GrantOf(r) = conn.creds.grant
        /\ At(r, "renewed") => SignedIn(conn.creds)
        /\ At(r, "passed") => GrantOf(r) # 0
        /\ At(r, "signed_in") => req[r].copy.status = "active"
        /\ r \notin late /\ ~At(r, "signed_in") /\ GrantOf(r) # 0 => SignedIn(conn.creds)

\* A new token is nobody else's, and was never given to the provider.
NewIsNew ==
    /\ spent \subseteq 1..issued
    /\ conn.creds.grant <= issued
    /\ \A r \in Requests :
          /\ GrantOf(r) <= issued
          /\ HasNew(r) =>
                /\ GrantOf(r) # 0 /\ GrantOf(r) \notin spent /\ GrantOf(r) # conn.creds.grant
                /\ \A q \in Requests \ {r} : GrantOf(q) # GrantOf(r)

\* The token in the row was given to the provider only if the next is about to be saved.
SpentIsReplaced ==
    ~history.lost /\ conn.creds.grant \in spent => \E r \in Requests : At(r, "renewed")

ConnInv ==
    /\ ConnTypeOK /\ OneHolder /\ CopiesInOrder /\ NewIsNew /\ SpentIsReplaced
    /\ CredentialsMatchStatus

LEMMA ConnTypes ==
    ASSUME ConnInv
    PROVE  /\ conn.creds.grant \in Nat /\ issued \in Nat /\ conn.creds \in Credentials
           /\ req \in [Requests -> Locals]
           /\ \A r \in Requests : req[r] \in Locals /\ req[r].copy \in Rows /\ GrantOf(r) \in Nat
                                  /\ req[r].copy.creds \in Credentials
BY BoundsAssumption DEF ConnInv, ConnTypeOK, Locals, Rows, Credentials, GrantOf

LEMMA ConnInvInit == ConnInit => ConnInv
<1> SUFFICES ASSUME ConnInit PROVE ConnInv
  OBVIOUS
<1>1. /\ conn.creds.grant = 0 /\ conn.status = "needs_reauth" /\ spent = {} /\ issued = 0
      /\ conn \in Rows /\ Idle \in Locals
      /\ \A r \in Requests : req[r] = Idle /\ req[r].step = "idle" /\ GrantOf(r) = 0
  BY BoundsAssumption DEF ConnInit, NewRow, NoCredentials, Idle, GrantOf, Rows, Credentials, Locals,
     Statuses, Steps, Goals
<1>2. ConnTypeOK
  <2>1. req \in [Requests -> Locals] /\ history \in [lost : BOOLEAN, revived : BOOLEAN]
    BY <1>1 DEF ConnInit
  <2>2. issued \in 0..MaxGrants
    BY BoundsAssumption DEF ConnInit
  <2>3. QED BY <1>1, <2>1, <2>2 DEF ConnInit, ConnTypeOK, Locals
<1>3. OneHolder /\ CopiesInOrder /\ NewIsNew /\ SpentIsReplaced /\ CredentialsMatchStatus
  BY <1>1 DEF OneHolder, CopiesInOrder, NewIsNew, SpentIsReplaced, CredentialsMatchStatus, HoldsRow, At,
     HasNew
<1>4. QED BY <1>2, <1>3 DEF ConnInv

----------------------------------------------------------------------------
\* A step of one request that leaves the row's credentials and the provider's tokens alone.
LEMMA Moved ==
    ASSUME ConnInv, NEW r \in Requests, NEW local \in Locals,
           req' = [req EXCEPT ![r] = local],
           conn' \in Rows, conn'.creds = conn.creds, subscribed' \in BOOLEAN,
           issued' = issued, spent' = spent, live' \subseteq Grants,
           late' \in {late, late \ {r}}, r \in late => r \in late' \/ local.copy.creds.grant = 0,
           history' \in [lost : BOOLEAN, revived : BOOLEAN],
           history.lost => history'.lost,
           local.step = "locked" => RowFree /\ local.copy.creds.grant = conn.creds.grant,
           local.step \notin {"renewed", "signed_in"},
           local.step = "idle" => local.copy.creds.grant = 0,
           local.step = "passed" => local.copy.creds.grant # 0,
           local.copy.creds.grant # 0 =>
               local.copy.creds.grant = conn.creds.grant
               \/ (local.copy.creds.grant = GrantOf(r) /\ ~HasNew(r)),
           req[r].step = "renewed" => history'.lost,
           CredentialsMatchStatus'
    PROVE  ConnInv'
<1> DEFINE g == local.copy.creds.grant
<1>1. /\ req' \in [Requests -> Locals] /\ req'[r] = local /\ GrantOf(r)' = g
      /\ \A q \in Requests \ {r} : req'[q] = req[q] /\ GrantOf(q)' = GrantOf(q)
  BY ConnTypes DEF GrantOf
<1>2. ConnTypeOK'
  BY <1>1 DEF ConnInv, ConnTypeOK, Locals
<1>3. OneHolder'
  BY <1>1 DEF ConnInv, OneHolder, HoldsRow, RowFree
<1>4. ASSUME NEW q \in Requests
      PROVE  /\ At(q, "idle")' => GrantOf(q)' = 0
             /\ At(q, "locked")' => GrantOf(q)' = conn'.creds.grant
             /\ At(q, "renewed")' => SignedIn(conn.creds)'
             /\ At(q, "passed")' => GrantOf(q)' # 0
             /\ At(q, "signed_in")' => req'[q].copy.status = "active"
             /\ q \notin late' /\ ~At(q, "signed_in")' /\ GrantOf(q)' # 0 => SignedIn(conn.creds)'
  <2>1. CASE q # r
    BY <1>1, <2>1 DEF ConnInv, CopiesInOrder, At, SignedIn
  <2>2. CASE q = r
    BY <1>1, <2>2, ConnTypes DEF ConnInv, CopiesInOrder, At, SignedIn, HasNew
  <2>3. QED BY <2>1, <2>2
<1>5. CopiesInOrder'
  BY <1>4 DEF CopiesInOrder
<1>6. NewIsNew'
  <2>1. g <= issued
    BY ConnTypes DEF ConnInv, NewIsNew
  <2>2. ASSUME NEW p \in Requests, HasNew(p)'
        PROVE  /\ p # r /\ HasNew(p) /\ GrantOf(p)' = GrantOf(p) /\ g # GrantOf(p)
    BY <1>1, <2>2, ConnTypes DEF ConnInv, NewIsNew, HasNew
  <2>3. QED BY <1>1, <2>1, <2>2 DEF ConnInv, NewIsNew
<1>7. SpentIsReplaced'
  BY <1>1 DEF ConnInv, SpentIsReplaced, At
<1>8. QED BY <1>2, <1>3, <1>5, <1>6, <1>7 DEF ConnInv

\* What a request keeps in one of its steps, whatever step it goes to.
LEMMA LocalsMade ==
    ASSUME ConnInv
    PROVE  /\ Idle \in Locals /\ Idle.copy.creds.grant = 0 /\ Idle.step = "idle"
           /\ [Idle EXCEPT !.step = "pending"] \in Locals
           /\ [Idle EXCEPT !.step = "disconnect"] \in Locals
           /\ \A goal \in Goals :
                 /\ [step |-> "token", goal |-> goal, copy |-> Reading] \in Locals
                 /\ Reading.creds = conn.creds
           /\ \A r \in Requests, step \in Steps :
                 /\ [req[r] EXCEPT !.step = step] \in Locals
                 /\ [req[r] EXCEPT !.step = step].step = step
                 /\ [req[r] EXCEPT !.step = step].copy = req[r].copy
           /\ conn.creds \in Credentials
<1>1. NoCredentials \in Credentials /\ NoCredentials.grant = 0
  BY BoundsAssumption DEF NoCredentials, Credentials
<1>2. NewRow \in Rows /\ NewRow.creds.grant = 0
  BY <1>1 DEF NewRow, Rows, Statuses
<1>3. Reading \in Rows /\ Reading.creds = conn.creds /\ conn.creds \in Credentials
  BY <1>2, ConnTypes DEF Reading, Rows
<1>4. \A step \in Steps : step \in Steps \cup {"idle"}
  OBVIOUS
<1>5. "pending" \in Steps /\ "disconnect" \in Steps /\ "token" \in Steps /\ "use" \in Goals
  BY DEF Steps, Goals
<1>6. \A r \in Requests : req[r] \in Locals
  BY ConnTypes
<1>7. Idle \in Locals /\ Idle.copy.creds.grant = 0 /\ Idle.step = "idle"
  BY <1>2, <1>5 DEF Idle, Locals
<1>8. QED BY <1>3, <1>4, <1>5, <1>6, <1>7 DEF Locals

\* What is said of the row's status, when neither it nor the credentials change.
LEMMA StatusStays ==
    ASSUME ConnInv, conn' = conn, subscribed' = subscribed, history'.revived = history.revived
    PROVE  CredentialsMatchStatus'
BY DEF ConnInv, CredentialsMatchStatus, SignedIn

LEMMA GotoStep ==
    ASSUME ConnInv, NEW r \in Requests, NEW step \in Steps, Goto(r, step),
           step \notin {"idle", "locked", "renewed", "signed_in"}, ~HasNew(r),
           step = "passed" => GrantOf(r) # 0,
           UNCHANGED <<row, issued, spent, late, history>>, live' = live
    PROVE  ConnInv'
<1> DEFINE local == [req[r] EXCEPT !.step = step]
<1>1. /\ local \in Locals /\ local.step = step /\ local.copy = req[r].copy
      /\ req' = [req EXCEPT ![r] = local]
  BY LocalsMade DEF Goto
<1>2. CredentialsMatchStatus'
  BY StatusStays DEF row
<1> HIDE DEF local
<1>3. QED BY <1>1, <1>2, Moved DEF ConnInv, ConnTypeOK, row, GrantOf, HasNew

LEMMA EndsStep ==
    ASSUME ConnInv, NEW r \in Requests, Ends(r),
           UNCHANGED <<row, issued, spent>>, live' = live,
           history'.revived = history.revived, history' \in [lost : BOOLEAN, revived : BOOLEAN],
           history.lost => history'.lost, req[r].step = "renewed" => history'.lost
    PROVE  ConnInv'
<1>1. CredentialsMatchStatus'
  BY StatusStays DEF row
<1>2. QED BY <1>1, LocalsMade, Moved DEF ConnInv, ConnTypeOK, row, Ends, Becomes

LEMMA BeginStep ==
    ASSUME ConnInv, NEW r \in Requests, NEW local \in Locals, At(r, "idle"), Becomes(r, local),
           local.step \in {"token", "pending", "disconnect"},
           local.copy.creds = conn.creds \/ local.copy.creds.grant = 0,
           UNCHANGED <<row, issued, spent, late, history>>, live' \subseteq Grants
    PROVE  ConnInv'
<1>1. CredentialsMatchStatus'
  BY StatusStays DEF row
<1>2. r \in late => r \in late'
  OBVIOUS
<1>3. QED BY <1>1, <1>2, Moved DEF ConnInv, ConnTypeOK, row, Becomes, At

\* A status is saved by a request that keeps its copy or ends.
LEMMA SavesStatusStep ==
    ASSUME ConnInv, NEW r \in Requests, NEW status \in Statuses \ {"disconnected"},
           SavesStatus(r, status), ~HasNew(r),
           status = "active" => At(r, "passed"),
           Ends(r) \/ (Goto(r, "failed") /\ late' = late),
           UNCHANGED <<subscribed, issued, spent>>, live' = live
    PROVE  ConnInv'
<1>1. /\ conn' = [conn EXCEPT !.status = status]
      /\ history' = [history EXCEPT !.revived = @ \/ r \in late]
  BY DEF SavesStatus
<1>2. conn' \in Rows /\ conn'.creds = conn.creds /\ conn'.status = status
  BY <1>1 DEF ConnInv, ConnTypeOK, Rows
<1>3. /\ history' \in [lost : BOOLEAN, revived : BOOLEAN] /\ (history.lost <=> history'.lost)
      /\ (history'.revived <=> history.revived \/ r \in late)
  BY <1>1 DEF ConnInv, ConnTypeOK
<1>4. CredentialsMatchStatus'
  <2>1. SUFFICES ASSUME status = "active", ~history'.revived PROVE SignedIn(conn.creds)
    BY <1>2, <1>3 DEF CredentialsMatchStatus, SignedIn
  <2>2. QED BY <1>3, <2>1 DEF ConnInv, CopiesInOrder, At
<1>5. ~HasNew(r) /\ req[r].step # "renewed"
  BY DEF HasNew
<1>6. CASE Ends(r)
  BY <1>2, <1>3, <1>4, <1>5, <1>6, LocalsMade, Moved DEF ConnInv, ConnTypeOK, Ends, Becomes
<1>7. CASE Goto(r, "failed") /\ late' = late
  <2> DEFINE local == [req[r] EXCEPT !.step = "failed"]
  <2>1. /\ local \in Locals /\ local.step = "failed" /\ local.copy = req[r].copy
        /\ req' = [req EXCEPT ![r] = local]
    BY <1>7, LocalsMade DEF Goto, Steps
  <2> HIDE DEF local
  <2>2. QED BY <1>2, <1>3, <1>4, <1>5, <1>7, <2>1, Moved DEF ConnInv, ConnTypeOK, GrantOf
<1>8. QED BY <1>6, <1>7

----------------------------------------------------------------------------
\* The steps that change the row's credentials, or the provider's tokens

LEMMA LockRowStep == ASSUME ConnInv, NEW r \in Requests, LockRow(r) PROVE ConnInv'
<1> DEFINE copy == [req[r].copy EXCEPT !.creds = conn.creds]
           local == [step |-> "locked", goal |-> req[r].goal, copy |-> copy]
<1>1. req' = [req EXCEPT ![r] = local]
  BY ConnTypes DEF LockRow, GotoWith
<1>2. local \in Locals /\ local.step = "locked" /\ local.copy.creds = conn.creds
  <2>1. req[r] \in Locals /\ req[r].copy \in Rows /\ conn.creds \in Credentials
    BY ConnTypes
  <2>2. copy \in Rows /\ copy.creds = conn.creds
    BY <2>1 DEF Rows
  <2> HIDE DEF copy
  <2>3. QED BY <2>1, <2>2 DEF Locals, Steps
<1>3. CredentialsMatchStatus'
  BY StatusStays DEF LockRow, row, ghosts
<1> HIDE DEF local
<1>4. QED BY <1>1, <1>2, <1>3, Moved DEF LockRow, row, provider, ghosts, At, ConnInv, ConnTypeOK

\* A token that the provider hands out to r, which held or holds no new one.
LEMMA NewToken ==
    ASSUME ConnInv, NEW r \in Requests, NEW local \in Locals, req' = [req EXCEPT ![r] = local],
           issued < MaxGrants, issued' = issued + 1, UNCHANGED <<row, ghosts>>,
           local.copy.creds.grant = issued + 1,
           live' \subseteq live \cup {issued + 1},
           \/ /\ local.step = "signed_in" /\ local.copy.status = "active"
              /\ spent' = spent /\ At(r, "pending")
           \/ /\ local.step = "renewed" /\ At(r, "locked")
              /\ spent' = spent \cup {conn.creds.grant} /\ SignedIn(conn.creds)
    PROVE  ConnInv'
<1>1. /\ req' \in [Requests -> Locals] /\ req'[r] = local /\ GrantOf(r)' = issued + 1
      /\ \A q \in Requests \ {r} : req'[q] = req[q] /\ GrantOf(q)' = GrantOf(q)
      /\ issued \in Nat /\ conn.creds.grant \in Nat /\ \A q \in Requests : GrantOf(q) \in Nat
      /\ conn.creds.grant <= issued /\ \A q \in Requests : GrantOf(q) <= issued
      /\ spent \subseteq 1..issued /\ conn' = conn /\ late' = late /\ history' = history
  BY ConnTypes DEF GrantOf, ConnInv, NewIsNew, row, ghosts
<1>9. spent' \subseteq 1..issued
  <2>1. CASE spent' = spent
    BY <1>1, <2>1
  <2>2. CASE spent' = spent \cup {conn.creds.grant} /\ SignedIn(conn.creds)
    <3>1. conn.creds.grant # 0
      BY <2>2 DEF SignedIn
    <3>2. conn.creds.grant \in 1..issued
      BY <1>1, <3>1
    <3>3. QED BY <1>1, <2>2, <3>2
  <2>3. QED BY <2>1, <2>2
<1>2. ConnTypeOK'
  <2>1. issued' \in 0..MaxGrants /\ issued + 1 \in Grants
    BY <1>1, BoundsAssumption DEF Grants
  <2>2. spent' \subseteq Grants
    BY <1>1, <1>9, BoundsAssumption DEF Grants
  <2>3. QED BY <1>1, <2>1, <2>2 DEF ConnInv, ConnTypeOK, Locals, row, ghosts
<1>3. OneHolder'
  BY <1>1 DEF ConnInv, OneHolder, HoldsRow, At
<1>4. CopiesInOrder'
  <2> SUFFICES ASSUME NEW q \in Requests
      PROVE  /\ At(q, "idle")' => GrantOf(q)' = 0
             /\ At(q, "locked")' => GrantOf(q)' = conn'.creds.grant
             /\ At(q, "renewed")' => SignedIn(conn.creds)'
             /\ At(q, "passed")' => GrantOf(q)' # 0
             /\ At(q, "signed_in")' => req'[q].copy.status = "active"
             /\ q \notin late' /\ ~At(q, "signed_in")' /\ GrantOf(q)' # 0 => SignedIn(conn.creds)'
    BY DEF CopiesInOrder
  <2>1. CASE q # r
    BY <1>1, <2>1 DEF ConnInv, CopiesInOrder, At, SignedIn
  <2>2. CASE q = r
    BY <1>1, <2>2 DEF At, SignedIn
  <2>3. QED BY <2>1, <2>2
<1>5. NewIsNew'
  <2>1. spent' \subseteq 1..issued'
    BY <1>1, <1>9
  <2>2. conn'.creds.grant <= issued' /\ \A q \in Requests : GrantOf(q)' <= issued'
    BY <1>1
  <2>3. ASSUME NEW p \in Requests, HasNew(p)'
        PROVE  /\ GrantOf(p)' # 0 /\ GrantOf(p)' \notin spent' /\ GrantOf(p)' # conn'.creds.grant
               /\ \A q \in Requests \ {p} : GrantOf(q)' # GrantOf(p)'
    <3>1. CASE p = r
      BY <1>1, <3>1
    <3>2. CASE p # r
      BY <1>1, <2>3, <3>2 DEF ConnInv, NewIsNew, HasNew
    <3>3. QED BY <3>1, <3>2
  <2>4. QED BY <2>1, <2>2, <2>3 DEF NewIsNew
<1>6. SpentIsReplaced'
  BY <1>1 DEF ConnInv, SpentIsReplaced, At
<1>7. CredentialsMatchStatus'
  BY <1>1 DEF ConnInv, CredentialsMatchStatus, SignedIn, row
<1>8. QED BY <1>2, <1>3, <1>4, <1>5, <1>6, <1>7 DEF ConnInv

LEMMA SpendStep == ASSUME ConnInv, NEW r \in Requests, Spend(r) PROVE ConnInv'
<1> DEFINE copy == [req[r].copy EXCEPT !.creds = StoredTokens(issued + 1)]
           local == [step |-> "renewed", goal |-> req[r].goal, copy |-> copy]
<1>1. issued + 1 \in Grants /\ At(r, "locked") /\ SignedIn(conn.creds) /\ GrantOf(r) = conn.creds.grant
  BY ConnTypes, BoundsAssumption
     DEF Spend, Grants, GrantOf, NeedsRefresh, SignedIn, ConnInv, CopiesInOrder
<1>2. StoredTokens(issued + 1) \in Credentials
  BY <1>1 DEF StoredTokens, Credentials, Grants
<1>3. req' = [req EXCEPT ![r] = local]
  BY ConnTypes DEF Spend, GotoWith
<1>4. local \in Locals /\ local.step = "renewed" /\ local.copy.creds.grant = issued + 1
  <2>1. req[r] \in Locals /\ req[r].copy \in Rows
    BY ConnTypes
  <2>2. copy \in Rows /\ copy.creds.grant = issued + 1
    BY <1>2, <2>1 DEF Rows, StoredTokens
  <2> HIDE DEF copy
  <2>3. QED BY <2>1, <2>2 DEF Locals, Steps
<1> HIDE DEF local
<1>5. QED BY <1>1, <1>3, <1>4, NewToken DEF Spend, GrantOf

LEMMA ExchangeCodeStep == ASSUME ConnInv, NEW r \in Requests, ExchangeCode(r) PROVE ConnInv'
<1> DEFINE newCreds == StoredTokens(issued + 1)
           copy == [conn EXCEPT !.status = "active", !.creds = newCreds]
           local == [step |-> "signed_in", goal |-> "test", copy |-> copy]
<1>1. issued + 1 \in Grants
  BY ConnTypes, BoundsAssumption DEF ExchangeCode, Grants
<1>2. newCreds \in Credentials /\ newCreds.grant = issued + 1
  BY <1>1 DEF StoredTokens, Credentials, Grants
<1>3. req' = [req EXCEPT ![r] = local]
  BY DEF ExchangeCode, Becomes
<1> HIDE DEF newCreds
<1>4. copy \in Rows /\ copy.status = "active" /\ copy.creds = newCreds
  BY <1>2 DEF ConnInv, ConnTypeOK, Rows, Statuses
<1> HIDE DEF copy
<1>5. local \in Locals
  BY <1>4 DEF Locals, Steps, Goals
<1>6. local.step = "signed_in" /\ local.copy.status = "active" /\ local.copy.creds.grant = issued + 1
  BY <1>2, <1>4
<1> HIDE DEF local
<1>7. QED BY <1>3, <1>5, <1>6, NewToken DEF ExchangeCode

LEMMA SaveRenewedStep == ASSUME ConnInv, NEW r \in Requests, SaveRenewed(r) PROVE ConnInv'
<1> DEFINE local == [req[r] EXCEPT !.step = "call"]
<1>1. /\ local \in Locals /\ local.step = "call" /\ local.copy = req[r].copy
      /\ req' = [req EXCEPT ![r] = local]
  BY LocalsMade DEF SaveRenewed, Goto, Steps
<1> HIDE DEF local
<1>2. /\ req' \in [Requests -> Locals] /\ req'[r].step = "call" /\ GrantOf(r)' = GrantOf(r)
      /\ \A q \in Requests \ {r} : req'[q] = req[q] /\ GrantOf(q)' = GrantOf(q)
      /\ UNCHANGED <<subscribed, provider, ghosts>>
  BY <1>1, ConnTypes DEF GrantOf, SaveRenewed
<1>3. /\ At(r, "renewed") /\ HasNew(r) /\ GrantOf(r) # 0 /\ GrantOf(r) \notin spent
      /\ conn' \in Rows /\ conn'.status = conn.status /\ conn'.creds.grant = GrantOf(r)
  BY ConnTypes DEF SaveRenewed, ConnInv, ConnTypeOK, NewIsNew, HasNew, At, GrantOf, Rows
<1>4. ConnTypeOK'
  BY <1>2, <1>3 DEF ConnInv, ConnTypeOK, Locals, provider, ghosts
<1>5. OneHolder' /\ \A q \in Requests \ {r} : ~HoldsRow(q)
  BY <1>2, <1>3 DEF ConnInv, OneHolder, HoldsRow, At
<1>6. CopiesInOrder'
  BY <1>2, <1>3, <1>5 DEF ConnInv, CopiesInOrder, At, HoldsRow, SignedIn, ghosts
<1>7. NewIsNew'
  <2>1. spent' \subseteq 1..issued' /\ conn'.creds.grant <= issued'
        /\ \A q \in Requests : GrantOf(q)' <= issued'
    BY <1>2, <1>3 DEF ConnInv, NewIsNew, provider
  <2>2. ASSUME NEW p \in Requests, HasNew(p)'
        PROVE  /\ p # r /\ HasNew(p) /\ GrantOf(p)' = GrantOf(p) /\ GrantOf(p) # GrantOf(r)
    BY <1>2, <1>3, <2>2 DEF ConnInv, NewIsNew, HasNew
  <2>3. QED BY <1>2, <1>3, <2>1, <2>2 DEF ConnInv, NewIsNew, provider
<1>8. SpentIsReplaced'
  BY <1>2, <1>3 DEF SpentIsReplaced, provider
<1>9. CredentialsMatchStatus'
  BY <1>2, <1>3 DEF ConnInv, CopiesInOrder, CredentialsMatchStatus, SignedIn, NoCredentials, ghosts
<1>10. QED BY <1>4, <1>5, <1>6, <1>7, <1>8, <1>9 DEF ConnInv

LEMMA SaveSignInStep == ASSUME ConnInv, NEW r \in Requests, SaveSignIn(r) PROVE ConnInv'
<1> DEFINE local == [req[r] EXCEPT !.step = "call"]
<1>1. /\ local \in Locals /\ local.step = "call" /\ local.copy = req[r].copy
      /\ req' = [req EXCEPT ![r] = local]
  BY LocalsMade DEF SaveSignIn, Goto, Steps
<1> HIDE DEF local
<1>2. /\ req' \in [Requests -> Locals] /\ req'[r].step = "call" /\ GrantOf(r)' = GrantOf(r)
      /\ \A q \in Requests \ {r} : req'[q] = req[q] /\ GrantOf(q)' = GrantOf(q)
      /\ UNCHANGED <<subscribed, provider, late>>
  BY <1>1, ConnTypes DEF GrantOf, SaveSignIn
<1>3. /\ RowFree /\ HasNew(r) /\ GrantOf(r) # 0 /\ GrantOf(r) \notin spent
      /\ conn' \in Rows /\ conn'.status = "active" /\ conn'.creds.grant = GrantOf(r)
  BY ConnTypes DEF SaveSignIn, ConnInv, CopiesInOrder, NewIsNew, HasNew, At, GrantOf
<1>4. history' \in [lost : BOOLEAN, revived : BOOLEAN]
  BY DEF SaveSignIn, ConnInv, ConnTypeOK
<1>5. ConnTypeOK'
  BY <1>2, <1>3, <1>4 DEF ConnInv, ConnTypeOK, Locals, provider
<1>6. OneHolder'
  BY <1>2, <1>3 DEF OneHolder, HoldsRow, RowFree
<1>7. CopiesInOrder'
  BY <1>2, <1>3 DEF ConnInv, CopiesInOrder, At, HoldsRow, RowFree, SignedIn
<1>8. NewIsNew'
  <2>1. spent' \subseteq 1..issued' /\ conn'.creds.grant <= issued'
        /\ \A q \in Requests : GrantOf(q)' <= issued'
    BY <1>2, <1>3 DEF ConnInv, NewIsNew, provider
  <2>2. ASSUME NEW p \in Requests, HasNew(p)'
        PROVE  /\ p # r /\ HasNew(p) /\ GrantOf(p)' = GrantOf(p) /\ GrantOf(p) # GrantOf(r)
    BY <1>2, <1>3, <2>2 DEF ConnInv, NewIsNew, HasNew
  <2>3. QED BY <1>2, <1>3, <2>1, <2>2 DEF ConnInv, NewIsNew, provider
<1>9. SpentIsReplaced'
  BY <1>2, <1>3 DEF SpentIsReplaced, provider
<1>10. CredentialsMatchStatus'
  BY <1>3 DEF CredentialsMatchStatus, SignedIn
<1>11. QED BY <1>5, <1>6, <1>7, <1>8, <1>9, <1>10 DEF ConnInv

\* A connection is disconnected while nobody holds the row; every request under way is late.
LEMMA CommitDisconnectStep == ASSUME ConnInv, NEW r \in Requests, CommitDisconnect(r) PROVE ConnInv'
<1>1. /\ req' = [req EXCEPT ![r] = Idle] /\ RowFree /\ subscribed' = FALSE
      /\ late' = {q \in Requests : req[q].step # "idle"} \ {r}
      /\ UNCHANGED <<provider, history>>
  BY DEF CommitDisconnect, Becomes
<1>2. /\ conn' \in Rows /\ conn'.status = "disconnected" /\ conn'.creds = NoCredentials
      /\ conn'.creds.grant = 0
  <2>1. NoCredentials \in Credentials /\ NoCredentials.grant = 0
    BY BoundsAssumption DEF NoCredentials, Credentials
  <2>2. QED BY <2>1 DEF CommitDisconnect, ConnInv, ConnTypeOK, Rows, Statuses
<1>3. /\ req' \in [Requests -> Locals] /\ req'[r].step = "idle" /\ GrantOf(r)' = 0
      /\ \A q \in Requests \ {r} : req'[q] = req[q] /\ GrantOf(q)' = GrantOf(q)
  BY <1>1, LocalsMade, ConnTypes DEF GrantOf
<1>4. ConnTypeOK'
  BY <1>1, <1>2, <1>3 DEF ConnInv, ConnTypeOK, Locals, provider
<1>5. OneHolder' /\ \A q \in Requests : ~HoldsRow(q)'
  BY <1>1, <1>3 DEF OneHolder, HoldsRow, RowFree
<1>6. CopiesInOrder'
  BY <1>1, <1>3, <1>5 DEF ConnInv, CopiesInOrder, At, HoldsRow, RowFree, SignedIn
<1>7. NewIsNew'
  <2>1. spent' \subseteq 1..issued' /\ conn'.creds.grant <= issued'
        /\ \A q \in Requests : GrantOf(q)' <= issued'
    BY <1>1, <1>2, <1>3, ConnTypes DEF ConnInv, NewIsNew, provider
  <2>2. ASSUME NEW p \in Requests, HasNew(p)' PROVE p # r /\ HasNew(p) /\ GrantOf(p)' = GrantOf(p)
    BY <1>3, <2>2 DEF HasNew
  <2>3. QED BY <1>1, <1>2, <1>3, <2>1, <2>2 DEF ConnInv, NewIsNew, provider
<1>8. SpentIsReplaced'
  BY <1>1, <1>2, ConnTypes DEF SpentIsReplaced, provider, ConnInv, NewIsNew
<1>9. CredentialsMatchStatus'
  BY <1>1, <1>2 DEF CredentialsMatchStatus
<1>10. QED BY <1>4, <1>5, <1>6, <1>7, <1>8, <1>9 DEF ConnInv

\* Subscriptions are saved with the copy of the credentials, or the renewed ones are lost.
LEMMA SaveSubscriptionsStep ==
    ASSUME ConnInv, NEW r \in Requests, SaveSubscriptions(r) PROVE ConnInv'
<1>1. /\ At(r, "passed") /\ RowFree /\ req' = [req EXCEPT ![r] = Idle] /\ late' = late \ {r}
      /\ history'.lost <=> (history.lost \/ conn.creds.grant # GrantOf(r))
      /\ history'.revived <=> (history.revived \/ r \in late)
      /\ history' \in [lost : BOOLEAN, revived : BOOLEAN]
      /\ subscribed' = TRUE /\ UNCHANGED provider
  BY DEF SaveSubscriptions, Ends, Becomes, ConnInv, ConnTypeOK, GrantOf
<1>2. /\ conn' \in Rows /\ conn'.status = conn.status /\ conn'.creds.grant = GrantOf(r)
      /\ GrantOf(r) # 0 /\ GrantOf(r) <= issued
  BY <1>1, ConnTypes DEF SaveSubscriptions, ConnInv, ConnTypeOK, CopiesInOrder, NewIsNew, GrantOf, Rows
<1>3. /\ req' \in [Requests -> Locals] /\ req'[r].step = "idle" /\ GrantOf(r)' = 0
      /\ \A q \in Requests \ {r} : req'[q] = req[q] /\ GrantOf(q)' = GrantOf(q)
  BY <1>1, LocalsMade, ConnTypes DEF GrantOf
<1>4. ConnTypeOK'
  BY <1>1, <1>2, <1>3 DEF ConnInv, ConnTypeOK, Locals, provider
<1>5. OneHolder'
  BY <1>1, <1>3 DEF OneHolder, HoldsRow, RowFree
<1>6. CopiesInOrder'
  BY <1>1, <1>2, <1>3 DEF ConnInv, CopiesInOrder, At, HoldsRow, RowFree, SignedIn
<1>7. NewIsNew'
  <2>1. spent' \subseteq 1..issued' /\ conn'.creds.grant <= issued'
        /\ \A q \in Requests : GrantOf(q)' <= issued'
    BY <1>1, <1>2, <1>3, ConnTypes DEF ConnInv, NewIsNew, provider
  <2>2. ASSUME NEW p \in Requests, HasNew(p)'
        PROVE  /\ p # r /\ HasNew(p) /\ GrantOf(p)' = GrantOf(p) /\ GrantOf(p) # GrantOf(r)
    BY <1>3, <2>2 DEF ConnInv, NewIsNew, HasNew
  <2>3. QED BY <1>1, <1>2, <1>3, <2>1, <2>2 DEF ConnInv, NewIsNew, provider
<1>8. SpentIsReplaced'
  BY <1>1, <1>2, <1>3 DEF ConnInv, SpentIsReplaced, provider, RowFree, HoldsRow, At
<1>9. CredentialsMatchStatus'
  <2>1. SUFFICES ASSUME ~history'.revived PROVE conn.status # "disconnected"
    BY <1>2 DEF CredentialsMatchStatus, SignedIn
  <2>2. SignedIn(conn.creds) /\ ~history.revived
    BY <1>1, <1>2, <2>1 DEF ConnInv, CopiesInOrder, At
  <2>3. QED BY <2>2 DEF ConnInv, CredentialsMatchStatus, SignedIn, NoCredentials
<1>10. QED BY <1>4, <1>5, <1>6, <1>7, <1>8, <1>9 DEF ConnInv

\* The token expires, or the provider ends a sign-in.
LEMMA OutsideStep ==
    ASSUME ConnInv, Expire \/ (\E g \in Grants : ProviderEnds(g)) \/ UNCHANGED connVars
    PROVE  ConnInv'
<1>1. /\ conn' \in Rows /\ conn'.status = conn.status /\ conn'.creds.grant = conn.creds.grant
      /\ (conn.creds = NoCredentials => conn'.creds = NoCredentials)
      /\ live' \subseteq live /\ UNCHANGED <<subscribed, req, issued, spent, ghosts>>
  <2>1. CASE Expire
    <3>1. conn \in [status : Statuses, creds : [grant : 0..MaxGrants, fresh : BOOLEAN]]
      BY DEF ConnInv, ConnTypeOK, Rows, Credentials
    <3>2. conn' = [conn EXCEPT !.creds = [conn.creds EXCEPT !.fresh = FALSE]]
      BY <2>1, <3>1 DEF Expire
    <3>3. [conn.creds EXCEPT !.fresh = FALSE] \in Credentials
          /\ [conn.creds EXCEPT !.fresh = FALSE].grant = conn.creds.grant
      BY <3>1 DEF Credentials
    <3>4. conn.creds # NoCredentials
      BY <2>1 DEF Expire, NoCredentials
    <3>5. QED BY <2>1, <3>2, <3>3, <3>4, ConnTypes DEF Expire, provider, ghosts, Rows, ConnInv, ConnTypeOK
  <2>2. CASE \E g \in Grants : ProviderEnds(g)
    BY <2>2 DEF ProviderEnds, row, ghosts, ConnInv, ConnTypeOK
  <2>3. CASE UNCHANGED connVars
    BY <2>3 DEF connVars, ghosts, ConnInv, ConnTypeOK
  <2>4. QED BY <2>1, <2>2, <2>3
<1>2. ConnTypeOK'
  BY <1>1 DEF ConnInv, ConnTypeOK, ghosts
<1>3. OneHolder' /\ CopiesInOrder' /\ NewIsNew' /\ SpentIsReplaced' /\ CredentialsMatchStatus'
  BY <1>1 DEF ConnInv, OneHolder, CopiesInOrder, NewIsNew, SpentIsReplaced, CredentialsMatchStatus,
     HoldsRow, At, HasNew, GrantOf, SignedIn, ghosts
<1>4. QED BY <1>2, <1>3 DEF ConnInv

----------------------------------------------------------------------------
\* Every step keeps the invariant

LEMMA TokenStepKeeps == ASSUME ConnInv, NEW r \in Requests, TokenStep(r) PROVE ConnInv'
<1>1. ASSUME NEW goal \in {"use", "test"}, Begin(r, goal) PROVE ConnInv'
  BY <1>1, LocalsMade, BeginStep DEF Begin, row, provider, ghosts, Goals, ConnInv, ConnTypeOK
<1>2. CASE TokenIsCurrent(r) \/ AlreadyRenewed(r) \/ SpendInVain(r)
  BY <1>2, GotoStep DEF TokenIsCurrent, AlreadyRenewed, SpendInVain, provider, ghosts, At, HasNew, Steps
<1>3. CASE LockRow(r) \/ Spend(r) \/ SaveRenewed(r)
  BY <1>3, LockRowStep, SpendStep, SaveRenewedStep
<1>4. CASE NobodySignedIn(r)
  BY <1>4, EndsStep DEF NobodySignedIn, provider, At, ConnInv, ConnTypeOK
<1>5. CASE MarkRefused(r)
  BY <1>5, SavesStatusStep DEF MarkRefused, provider, At, HasNew, Statuses
<1>6. CASE CallPasses(r)
  <2>1. CASE Ends(r)
    BY <1>6, <2>1, EndsStep DEF CallPasses, provider, At, ConnInv, ConnTypeOK
  <2>2. CASE Goto(r, "passed") /\ UNCHANGED late
    BY <1>6, <2>2, GotoStep DEF CallPasses, provider, ghosts, At, HasNew, Steps, SignedIn, GrantOf
  <2>3. QED BY <1>6, <2>1, <2>2 DEF CallPasses
<1>7. CASE CallFails(r)
  <2>1. CASE Ends(r)
    BY <1>7, <2>1, EndsStep DEF CallFails, provider, At, ConnInv, ConnTypeOK
  <2>2. CASE Goto(r, "failed") /\ UNCHANGED late
    BY <1>7, <2>2, GotoStep DEF CallFails, provider, ghosts, At, HasNew, Steps
  <2>3. QED BY <1>7, <2>1, <2>2 DEF CallFails
<1>8. CASE SaveTest(r)
  BY <1>8, SavesStatusStep DEF SaveTest, provider, At, HasNew, Statuses
<1>9. QED BY <1>1, <1>2, <1>3, <1>4, <1>5, <1>6, <1>7, <1>8 DEF TokenStep

LEMMA StaffStepKeeps == ASSUME ConnInv, NEW r \in Requests, StaffStep(r) PROVE ConnInv'
<1>1. CASE StartSignIn(r)
  <2>1. [Idle EXCEPT !.step = "pending"].step = "pending"
        /\ [Idle EXCEPT !.step = "pending"].copy.creds.grant = 0
    BY LocalsMade DEF Idle
  <2>2. QED BY <1>1, <2>1, LocalsMade, BeginStep DEF StartSignIn, provider, ghosts, ConnInv, ConnTypeOK
<1>2. CASE ForgetSignIn(r)
  BY <1>2, EndsStep DEF ForgetSignIn, provider, At, ConnInv, ConnTypeOK
<1>3. CASE RefuseSignIn(r)
  BY <1>3, SavesStatusStep DEF RefuseSignIn, provider, At, HasNew, Statuses
<1>4. CASE ExchangeCode(r) \/ SaveSignIn(r) \/ CommitDisconnect(r) \/ SaveSubscriptions(r)
  BY <1>4, ExchangeCodeStep, SaveSignInStep, CommitDisconnectStep, SaveSubscriptionsStep
<1>5. CASE BeginDisconnect(r)
  <2>1. [Idle EXCEPT !.step = "disconnect"].step = "disconnect"
        /\ [Idle EXCEPT !.step = "disconnect"].copy.creds.grant = 0
    BY LocalsMade DEF Idle
  <2>2. live' \subseteq Grants
    BY <1>5 DEF BeginDisconnect, ConnInv, ConnTypeOK
  <2>3. QED BY <1>5, <2>1, <2>2, LocalsMade, BeginStep DEF BeginDisconnect, ghosts
<1>6. CASE RegisterWebhooks(r)
  BY <1>6, LocalsMade, BeginStep DEF RegisterWebhooks, row, provider, ghosts, Goals, ConnInv, ConnTypeOK
<1>7. QED BY <1>1, <1>2, <1>3, <1>4, <1>5, <1>6 DEF StaffStep

LEMMA CrashStep == ASSUME ConnInv, NEW r \in Requests, Crash(r) PROVE ConnInv'
<1>1. /\ history' \in [lost : BOOLEAN, revived : BOOLEAN] /\ history'.revived = history.revived
      /\ (history'.lost <=> history.lost \/ At(r, "renewed"))
  BY DEF Crash, ConnInv, ConnTypeOK
<1>2. QED BY <1>1, EndsStep DEF Crash, provider, At

LEMMA ConnInvStep == ConnInv /\ [ConnNext]_connVars => ConnInv'
BY TokenStepKeeps, StaffStepKeeps, CrashStep, OutsideStep DEF ConnNext

----------------------------------------------------------------------------
\* Credentials are spent once, and agree with what the connection says of itself: a refresh
\* token is not given to the provider again unless a crash or a stale save lost the renewed
\* one, and only a request under way when the connection was disconnected revives it
\* (access_token, disconnect, finish, check_connection).
THEOREM CredentialsKept == ConnSpec => CredentialsInOrder
<1> DEFINE Once == history.lost \/ \A r \in Requests : SpendInVain(r) => GrantOf(r) \notin spent
<1>1. ConnInv => CredentialsMatchStatus
  BY DEF ConnInv
<1>2. ConnInv => Once
  <2> SUFFICES ASSUME ConnInv, ~history.lost, NEW r \in Requests, SpendInVain(r), GrantOf(r) \in spent
               PROVE FALSE
    OBVIOUS
  <2>1. At(r, "locked") /\ GrantOf(r) = conn.creds.grant
    BY DEF SpendInVain, ConnInv, CopiesInOrder
  <2>2. PICK q \in Requests : At(q, "renewed")
    BY <2>1 DEF ConnInv, SpentIsReplaced
  <2>3. QED BY <2>1, <2>2 DEF ConnInv, OneHolder, HoldsRow, At
<1>3. ConnInv => [history.lost \/ \A r \in Requests :
                     SpendInVain(r) => req[r].copy.creds.grant \notin spent]_connVars
  BY <1>2 DEF GrantOf
<1>4. QED BY <1>1, <1>3, ConnInvInit, ConnInvStep, PTL DEF ConnSpec, CredentialsInOrder, SpentOnce

----------------------------------------------------------------------------
\* Consent.  The flag is what was wished last while one handler at most is at work and the
\* flag is as it read it; a sender that read the flag before it was set was under way.

HandlerRows == [word : Words \cup {"none", "edit"}, seen : BOOLEAN]
SenderRows == [step : {"idle", "read", "allowed"}, seen : BOOLEAN]

ConsentInv ==
    /\ optedOut \in BOOLEAN /\ serial \in BOOLEAN /\ wish \in Words
    /\ replies \in Seq(Words)
    /\ handler \in [Handlers -> HandlerRows] /\ sender \in [Senders -> SenderRows]
    /\ serial =>
          /\ optedOut <=> wish = "stop"
          /\ \A h \in Handlers : handler[h] # Resting =>
                /\ handler[h].seen <=> optedOut
                /\ \A k \in Handlers \ {h} : handler[k] = Resting
    /\ \A s \in Senders :
          /\ sender[s].step = "allowed" => ~sender[s].seen
          /\ sender[s].step # "idle" /\ ~sender[s].seen /\ optedOut => s \in underWay

LEMMA ConsentInvInit == ConsentInit => ConsentInv
<1> SUFFICES ASSUME ConsentInit PROVE ConsentInv
  OBVIOUS
<1>1. Resting \in HandlerRows /\ Away \in SenderRows /\ Away.step = "idle"
  BY DEF Resting, Away, HandlerRows, SenderRows
<1>2. handler \in [Handlers -> HandlerRows] /\ sender \in [Senders -> SenderRows]
  BY <1>1 DEF ConsentInit
<1>3. optedOut \in BOOLEAN /\ serial \in BOOLEAN /\ wish = "start" /\ ~optedOut /\ replies = <<>>
  BY DEF ConsentInit
<1>4. (\A h \in Handlers : handler[h] = Resting) /\ \A s \in Senders : sender[s] = Away
  BY DEF ConsentInit
<1>5. QED BY <1>1, <1>2, <1>3, <1>4 DEF ConsentInv, Words

\* A handler begins, with the flag as it is.
LEMMA HandlerReads ==
    ASSUME ConsentInv, NEW h \in Handlers, NEW word \in Words \cup {"edit"}, Reads(h, word),
           serial' \in BOOLEAN, serial' => serial /\ AllRest,
           UNCHANGED <<optedOut, replies, sender, underWay, wish>>
    PROVE  ConsentInv'
<1>1. [word |-> word, seen |-> optedOut] \in HandlerRows
  BY DEF ConsentInv, HandlerRows
<1>2. /\ handler' \in [Handlers -> HandlerRows] /\ (handler'[h].seen <=> optedOut)
      /\ \A k \in Handlers \ {h} : handler'[k] = handler[k]
  BY <1>1 DEF ConsentInv, Reads
<1>3. QED BY <1>2 DEF ConsentInv, AllRest

\* A handler ends, having set the flag.
LEMMA HandlerEnds ==
    ASSUME ConsentInv, NEW h \in Handlers, handler' = [handler EXCEPT ![h] = Resting],
           optedOut' \in BOOLEAN, wish' \in Words,
           underWay' = IF optedOut' /\ ~optedOut
                       THEN {s \in Senders : sender[s].step # "idle"} ELSE underWay,
           handler[h] # Resting,
           (handler[h].seen <=> optedOut) /\ (optedOut <=> wish = "stop") => (optedOut' <=> wish' = "stop"),
           UNCHANGED <<replies, sender, serial>>
    PROVE  ConsentInv'
<1>1. Resting \in HandlerRows
  BY DEF Resting, HandlerRows
<1>2. /\ handler' \in [Handlers -> HandlerRows] /\ handler'[h] = Resting
      /\ \A k \in Handlers \ {h} : handler'[k] = handler[k]
  BY <1>1 DEF ConsentInv
<1>3. serial => (optedOut' <=> wish' = "stop") /\ \A k \in Handlers : handler'[k] = Resting
  BY <1>2 DEF ConsentInv
<1>4. \A s \in Senders : sender[s].step # "idle" /\ ~sender[s].seen /\ optedOut' => s \in underWay'
  BY DEF ConsentInv
<1>5. QED BY <1>2, <1>3, <1>4 DEF ConsentInv

LEMMA ConsentInvStep == ConsentInv /\ [ConsentNext]_consentVars => ConsentInv'
<1> SUFFICES ASSUME ConsentInv, [ConsentNext]_consentVars PROVE ConsentInv'
  OBVIOUS
<1>1. ASSUME NEW word \in Words, Reply(word) PROVE ConsentInv'
  BY <1>1 DEF Reply, ConsentInv
<1>2. ASSUME NEW h \in Handlers, NEW i \in DOMAIN replies, TakeReply(h, i) PROVE ConsentInv'
  <2>1. replies[i] \in Words
    BY DEF ConsentInv
  <2>2. serial' \in BOOLEAN /\ (serial' => serial /\ AllRest)
    BY <1>2 DEF TakeReply, ConsentInv
  <2>3. QED BY <1>2, <2>1, <2>2, HandlerReads DEF TakeReply
<1>3. ASSUME NEW h \in Handlers, NEW word \in Words \cup {"edit"}, StaffSets(h, word) PROVE ConsentInv'
  <2>1. serial' \in BOOLEAN /\ (serial' => serial /\ AllRest)
    BY <1>3 DEF StaffSets, ConsentInv
  <2>2. QED BY <1>3, <2>1, HandlerReads DEF StaffSets
<1>4. ASSUME NEW h \in Handlers, SetOptOut(h) PROVE ConsentInv'
  <2> DEFINE word == handler[h].word
  <2>1. word \in Words /\ handler[h] # Resting /\ optedOut \in BOOLEAN /\ wish' = word
    BY <1>4 DEF SetOptOut, Resting, Words, ConsentInv
  <2>2. /\ optedOut' \in BOOLEAN
        /\ (handler[h].seen <=> optedOut) => (optedOut' <=> word = "stop")
    BY <1>4, <2>1 DEF SetOptOut, FlagAfter, ConsentInv, HandlerRows
  <2>3. /\ handler' = [handler EXCEPT ![h] = Resting] /\ UNCHANGED <<replies, sender, serial>>
        /\ underWay' = IF optedOut' /\ ~optedOut
                       THEN {s \in Senders : sender[s].step # "idle"} ELSE underWay
    BY <1>4 DEF SetOptOut
  <2>4. QED BY <2>1, <2>2, <2>3, HandlerEnds
<1>5. ASSUME NEW h \in Handlers, SaveDetails(h) PROVE ConsentInv'
  <2>1. handler[h] # Resting /\ handler[h].seen \in BOOLEAN /\ wish \in Words /\ wish' = wish
    BY <1>5 DEF SaveDetails, Resting, ConsentInv, HandlerRows
  <2>2. optedOut' = handler[h].seen
    BY <1>5 DEF SaveDetails
  <2>3. /\ optedOut' \in BOOLEAN
        /\ (handler[h].seen <=> optedOut) /\ (optedOut <=> wish = "stop") => (optedOut' <=> wish' = "stop")
    BY <2>1, <2>2
  <2>4. QED BY <1>5, <2>1, <2>3, HandlerEnds DEF SaveDetails
<1>6. ASSUME NEW s \in Senders, BeginText(s) \/ AllowText(s) \/ HoldText(s) \/ PerformText(s)
      PROVE  ConsentInv'
  <2>1. \A t \in Senders \ {s} : sender'[t] = sender[t]
    BY <1>6 DEF BeginText, AllowText, HoldText, PerformText, Leaves, ConsentInv
  <2>2. sender' \in [Senders -> SenderRows]
    <3>1. [step |-> "read", seen |-> optedOut] \in SenderRows /\ Away \in SenderRows
          /\ [sender[s] EXCEPT !.step = "allowed"] \in SenderRows
      BY DEF ConsentInv, SenderRows, Away
    <3>2. QED BY <1>6, <3>1 DEF BeginText, AllowText, HoldText, PerformText, Leaves, ConsentInv
  <2>3. /\ sender'[s].step = "allowed" => ~sender'[s].seen
        /\ sender'[s].step # "idle" /\ ~sender'[s].seen /\ optedOut' => s \in underWay'
    BY <1>6 DEF BeginText, AllowText, HoldText, PerformText, Leaves, ConsentInv, SenderRows, Away
  <2>4. underWay \ {s} \subseteq underWay' /\ UNCHANGED <<optedOut, replies, handler, serial, wish>>
    BY <1>6 DEF BeginText, AllowText, HoldText, PerformText, Leaves
  <2>5. QED BY <2>1, <2>2, <2>3, <2>4 DEF ConsentInv
<1>7. CASE UNCHANGED consentVars
  BY <1>7 DEF consentVars, ConsentInv
<1>8. QED BY <1>1, <1>2, <1>3, <1>4, <1>5, <1>6, <1>7 DEF ConsentNext

\* What the contact wished for holds for the flag, while the wishes come one after the other,
\* and for the texts (store_one, set_texting_opt_out, evaluate).
THEOREM WishesKept == ConsentSpec => ConsentKept
<1> DEFINE Late == \A s \in Senders : PerformText(s) /\ optedOut => s \in underWay
<1>1. ConsentInv => ConsentFollowsWishes
  BY DEF ConsentInv, ConsentFollowsWishes
<1>2. ConsentInv => [Late]_consentVars
  BY DEF ConsentInv, PerformText
<1>3. QED BY <1>1, <1>2, ConsentInvInit, ConsentInvStep, PTL
          DEF ConsentSpec, ConsentKept, NoTextAfterOptOut

----------------------------------------------------------------------------
\* The log.  What a task read of a record that was not there has no status; and whose
\* communications are about to be linked has the number.

StorerRows == [step : {"idle", "read", "matched"}, copy : Copies, seen : Records, match : Links]

LogInv ==
    /\ record \in Records /\ stale \in BOOLEAN
    /\ storer \in [Storers -> StorerRows]
    /\ numbers \subseteq Contacts /\ IsFiniteSet(numbers) /\ linking \subseteq numbers
    /\ ~record.stored => record.rank = 0
    /\ \A t \in Storers : ~storer[t].seen.stored => storer[t].seen.rank = 0
    /\ WaitsOnlyIfUnclear

\* The one contact with the number.
LEMMA MatchIs ==
    ASSUME IsFiniteSet(numbers), numbers \subseteq Contacts
    PROVE  /\ MatchContact \in Links
           /\ \A c \in numbers : MatchContact \in {c, Nobody}
<1>1. CASE Cardinality(numbers) = 1
  <2>1. PICK x : numbers = {x}
    BY <1>1, FS_Singleton
  <2>2. MatchContact = x
    BY <1>1, <2>1 DEF MatchContact
  <2>3. QED BY <2>1, <2>2 DEF Links
<1>2. CASE Cardinality(numbers) # 1
  BY <1>2 DEF MatchContact, Links
<1>3. QED BY <1>1, <1>2

LEMMA LinkedRecord ==
    ASSUME NEW some \in Records, NEW contact \in Links
    PROVE  /\ LinkTo(some, contact) \in Records /\ LinkTo(some, contact).contact = contact
           /\ LinkTo(some, contact).stored = some.stored /\ LinkTo(some, contact).rank = some.rank
BY DEF LinkTo, Records

\* What the fields of a row hold.
LEMMA LogTypes ==
    ASSUME LogInv
    PROVE  /\ 0 \in Ranks \cup {0} /\ Ranks \cup {0} \subseteq Nat /\ SentRank \in Ranks \cup {0}
           /\ NoRecord \in Records /\ NoRecord.rank = 0 /\ AtRest \in StorerRows /\ AtRest.seen = NoRecord
           /\ record.rank \in Nat
           /\ \A t \in Storers :
                 /\ storer[t] \in StorerRows /\ storer[t].seen \in Records /\ storer[t].match \in Links
                 /\ storer[t].copy.rank \in Ranks \cup {0} /\ storer[t].seen.rank \in Nat
<1>1. 0 \in Ranks \cup {0} /\ Ranks \cup {0} \subseteq Nat /\ SentRank \in Ranks \cup {0}
  BY CommunicationsAssumption
<1>2. NoRecord \in Records /\ NoRecord.rank = 0 /\ Nobody \in Links
  BY DEF NoRecord, Records, Links
<1>3. AtRest \in StorerRows /\ AtRest.seen = NoRecord
  BY <1>2 DEF AtRest, StorerRows, Copies
<1>4. record.rank \in Nat
  BY <1>1 DEF LogInv, Records
<1>5. ASSUME NEW t \in Storers
      PROVE  /\ storer[t] \in StorerRows /\ storer[t].seen \in Records /\ storer[t].match \in Links
             /\ storer[t].copy.rank \in Ranks \cup {0} /\ storer[t].seen.rank \in Nat
  <2>1. storer[t] \in StorerRows
    BY DEF LogInv
  <2>2. storer[t].seen \in Records /\ storer[t].match \in Links /\ storer[t].copy \in Copies
    BY <2>1 DEF StorerRows
  <2>3. QED BY <1>1, <2>1, <2>2 DEF Records, Copies
<1>6. QED BY <1>1, <1>2, <1>3, <1>4, <1>5

LEMMA LogInvInit == CommsInit => LogInv
<1> SUFFICES ASSUME CommsInit PROVE LogInv
  OBVIOUS
<1>1. NoRecord \in Records /\ NoRecord.rank = 0 /\ NoRecord.stored = FALSE /\ Nobody \in Links
  BY DEF NoRecord, Records, Links
<1>2. AtRest \in StorerRows /\ AtRest.seen = NoRecord
  BY <1>1 DEF AtRest, StorerRows, Copies
<1>3. IsFiniteSet({})
  BY FS_EmptySet
<1>4. storer \in [Storers -> StorerRows] /\ \A t \in Storers : storer[t] = AtRest
  BY <1>2 DEF CommsInit
<1>5. QED BY <1>1, <1>2, <1>3, <1>4 DEF CommsInit, LogInv, WaitsOnlyIfUnclear

\* A task goes on, and writes nothing.
LEMMA StorerMoves ==
    ASSUME LogInv, NEW t \in Storers, NEW r \in StorerRows, storer' = [storer EXCEPT ![t] = r],
           r.seen \in {storer[t].seen, record, NoRecord},
           UNCHANGED <<record, numbers, linking, stale>>
    PROVE  LogInv'
<1>1. /\ storer' \in [Storers -> StorerRows] /\ storer'[t] = r
      /\ \A u \in Storers \ {t} : storer'[u] = storer[u]
  BY DEF LogInv
<1>2. ~r.seen.stored => r.seen.rank = 0
  BY LogTypes DEF LogInv
<1>3. WaitsOnlyIfUnclear'
  BY DEF LogInv, WaitsOnlyIfUnclear, MatchContact
<1>4. QED BY <1>1, <1>2, <1>3 DEF LogInv

LEMMA StoreStepKeeps == ASSUME LogInv, NEW t \in Storers, StoreStep(t) PROVE LogInv'
<1>1. ASSUME NEW copy \in Copies, Arrives(t, copy) PROVE LogInv'
  <2> DEFINE r == [AtRest EXCEPT !.step = "read", !.copy = copy, !.seen = record]
  <2>1. r \in StorerRows /\ r.seen = record
    BY LogTypes DEF LogInv, StorerRows
  <2>2. storer' = [storer EXCEPT ![t] = r] /\ UNCHANGED <<record, numbers, linking, stale>>
    BY <1>1 DEF Arrives
  <2> HIDE DEF r
  <2>3. QED BY <2>1, <2>2, StorerMoves
<1>2. CASE DropUpdate(t) \/ SkipUnmatched(t)
  BY <1>2, LogTypes, StorerMoves DEF DropUpdate, SkipUnmatched
<1>3. CASE Match(t)
  <2> DEFINE r == [storer[t] EXCEPT !.step = "matched", !.match = MatchContact]
  <2>1. MatchContact \in Links
    BY MatchIs DEF LogInv
  <2>2. r \in StorerRows /\ r.seen = storer[t].seen
    BY <2>1, LogTypes DEF StorerRows
  <2>3. storer' = [storer EXCEPT ![t] = r] /\ UNCHANGED <<record, numbers, linking, stale>>
    BY <1>3 DEF Match
  <2> HIDE DEF r
  <2>4. QED BY <2>2, <2>3, StorerMoves
<1>4. CASE Store(t)
  <2> DEFINE seen == storer[t].seen
             contact == ContactToStore(seen, record, storer[t].match)
             rank == StatusToStore(seen, record, storer[t].copy.rank)
  <2>1. contact \in Links /\ rank \in Ranks \cup {0}
    BY LogTypes DEF LogInv, Records, ContactToStore, StatusToStore
  <2>2. (storer[t].match # Nobody => contact # Nobody)
    BY DEF ContactToStore
  <2>3. /\ record' = [LinkTo(record, contact) EXCEPT !.stored = TRUE, !.rank = rank]
        /\ storer' = [storer EXCEPT ![t] = AtRest] /\ UNCHANGED <<numbers, linking>>
    BY <1>4 DEF Store
  <2>4. stale' \in BOOLEAN /\ (stale' <=> stale \/ storer[t].match # MatchContact)
    BY <1>4 DEF Store, LogInv
  <2> HIDE DEF contact, rank
  <2>5. record' \in Records /\ record'.contact = contact /\ record'.stored = TRUE
    BY <2>1, <2>3, LinkedRecord DEF LogInv, Records
  <2>6. /\ storer' \in [Storers -> StorerRows] /\ storer'[t] = AtRest
        /\ \A u \in Storers \ {t} : storer'[u] = storer[u]
    BY <2>3, LogTypes DEF LogInv
  <2>7. WaitsOnlyIfUnclear'
    BY <2>2, <2>3, <2>4, <2>5 DEF WaitsOnlyIfUnclear, MatchContact
  <2>8. QED BY <2>3, <2>4, <2>5, <2>6, <2>7, LogTypes DEF LogInv
<1>5. QED BY <1>1, <1>2, <1>3, <1>4 DEF StoreStep

\* Staff and the request that sends the text write the record; contacts get the number.
LEMMA OfficeStepKeeps ==
    ASSUME LogInv, NEW c \in Contacts, LogSent(c) \/ LinkByHand(c) \/ SaveContact(c) \/ LinkUnmatched(c)
    PROVE  LogInv'
<1>1. c \in Links /\ c # Nobody /\ LinkTo(record, c) \in Records /\ LinkTo(record, c).contact = c
      /\ LinkTo(record, c).stored = record.stored /\ LinkTo(record, c).rank = record.rank
  BY NobodyAssumption, LinkedRecord DEF Links, LogInv
<1>2. CASE LogSent(c)
  <2> DEFINE rank == IF log.status THEN LinkTo(record, c).rank ELSE SentRank
  <2>1. rank \in Ranks \cup {0}
    BY <1>1, LogTypes DEF LogInv, Records
  <2>2. record' = [LinkTo(record, c) EXCEPT !.stored = TRUE, !.rank = rank]
        /\ UNCHANGED <<numbers, linking, storer, stale>>
    BY <1>1, <1>2 DEF LogSent, Records
  <2> HIDE DEF rank
  <2>3. record' \in Records /\ record'.contact = c /\ record'.stored = TRUE
    BY <1>1, <2>1, <2>2 DEF Records
  <2>4. QED BY <1>1, <2>2, <2>3 DEF LogInv, WaitsOnlyIfUnclear
<1>3. CASE LinkByHand(c)
  BY <1>1, <1>3 DEF LinkByHand, LogInv, WaitsOnlyIfUnclear
<1>4. CASE SaveContact(c)
  <2>1. /\ numbers' = numbers \cup {c} /\ linking' = linking \cup {c}
        /\ UNCHANGED <<record, storer, stale>>
    BY <1>4 DEF SaveContact
  <2>2. IsFiniteSet(numbers')
    BY <2>1, FS_AddElement DEF LogInv
  <2>3. QED BY <2>1, <2>2 DEF LogInv, WaitsOnlyIfUnclear
<1>5. CASE LinkUnmatched(c)
  <2>1. /\ linking' = linking \ {c} /\ c \in numbers /\ UNCHANGED <<numbers, storer, stale>>
        /\ MatchContact' = MatchContact
    BY <1>5 DEF LinkUnmatched, LogInv, MatchContact
  <2>2. MatchContact \in {c, Nobody}
    BY <2>1, MatchIs DEF LogInv
  <2>3. CASE MatchContact = c /\ record.stored /\ record.contact = Nobody
    <3>1. record' = LinkTo(record, c)
      BY <1>5, <2>3 DEF LinkUnmatched
    <3>2. QED BY <1>1, <2>1, <3>1 DEF LogInv, WaitsOnlyIfUnclear
  <2>4. CASE ~(MatchContact = c /\ record.stored /\ record.contact = Nobody)
    <3>1. record' = record
      BY <1>5, <2>4 DEF LinkUnmatched
    <3>2. QED BY <2>1, <2>2, <2>4, <3>1 DEF LogInv, WaitsOnlyIfUnclear
  <2>5. QED BY <2>3, <2>4
<1>6. QED BY <1>2, <1>3, <1>4, <1>5

LEMMA LogInvStep == LogInv /\ [CommsNext]_commsVars => LogInv'
<1> SUFFICES ASSUME LogInv, [CommsNext]_commsVars PROVE LogInv'
  OBVIOUS
<1>1. CASE SendText \/ CheckLog \/ UNCHANGED commsVars
  BY <1>1 DEF SendText, CheckLog, commsVars, LogInv, WaitsOnlyIfUnclear, MatchContact
<1>2. QED BY <1>1, StoreStepKeeps, OfficeStepKeeps DEF CommsNext

\* A status is written back only over one that its writer had not read.
LEMMA StatusStep ==
    ASSUME LogInv, CommsNext, record'.rank < record.rank
    PROVE  \/ \E t \in Storers : Store(t) /\ storer[t].seen.rank # record.rank
           \/ log.step = "checked" /\ ~log.status
<1>1. record' # record
  BY LogTypes
<1>2. CASE \E t \in Storers : Store(t)
  <2>1. PICK t \in Storers : Store(t)
    BY <1>2
  <2> DEFINE seen == storer[t].seen
             contact == ContactToStore(seen, record, storer[t].match)
             rank == StatusToStore(seen, record, storer[t].copy.rank)
  <2>2. record' = [LinkTo(record, contact) EXCEPT !.stored = TRUE, !.rank = rank]
    BY <2>1 DEF Store
  <2>3. contact \in Links
    BY LogTypes DEF LogInv, Records, ContactToStore
  <2> HIDE DEF contact
  <2>4. record'.rank = rank
    BY <2>2, <2>3, LinkedRecord DEF LogInv, Records
  <2>5. seen.rank # record.rank
    BY <2>4, LogTypes DEF LogInv, StatusToStore
  <2>6. QED BY <2>1, <2>5
<1>3. ASSUME NEW c \in Contacts, LogSent(c) PROVE log.step = "checked" /\ ~log.status
  <2>1. log.status => record'.rank = record.rank
    BY <1>3, LinkedRecord DEF LogSent, LogInv, Records, Links
  <2>2. QED BY <1>3, <2>1, LogTypes DEF LogSent
<1>4. ASSUME NEW c \in Contacts, LinkByHand(c) \/ LinkUnmatched(c) PROVE FALSE
  <2>1. record'.rank = record.rank
    BY <1>1, <1>4, LinkedRecord DEF LinkByHand, LinkUnmatched, LogInv, Links
  <2>2. QED BY <2>1, LogTypes
<1>5. QED BY <1>1, <1>2, <1>3, <1>4
          DEF CommsNext, StoreStep, Arrives, DropUpdate, Match, SkipUnmatched, SendText, CheckLog,
              SaveContact

\* A stored record waits for a contact only while its number means none or several, and a
\* delivery status moves back only over one its writer had not read (store_one, log_sent).
THEOREM LogKept == CommsSpec => LogInOrder
<1> DEFINE Forward ==
        record'.rank < record.rank =>
            \/ \E t \in Storers : Store(t) /\ storer[t].seen.rank # record.rank
            \/ log.step = "checked" /\ ~log.status
<1>1. LogInv => WaitsOnlyIfUnclear
  BY DEF LogInv
<1>2. LogInv /\ [CommsNext]_commsVars => [Forward]_commsVars
  BY StatusStep
<1>3. QED BY <1>1, <1>2, LogInvInit, LogInvStep, PTL DEF CommsSpec, LogInOrder, StatusMovesForward

----------------------------------------------------------------------------
\* Signature requests.  What makes RequestAsSigned inductive is where news of the envelope
\* is until the request shows it: in an event not handled yet, or in a report not stored.

Envelopes == [at : {"none", "open", "deleted"} \cup Ended, signed : SUBSET Signers,
              refused : SUBSET Signers]
RequestRows == [status : {"none", "sent"} \cup Ended, marks : MarkSets, filed : Nat]
CancelRows == [step : {"idle", "asking", "agreed"}, marks : MarkSets]

SignTypes ==
    /\ envelope \in Envelopes /\ paper \in RequestRows /\ due \in Nat /\ unheard \in BOOLEAN
    /\ sending \in {"no", "answered", "over"}
    /\ canceller \in [Cancellers -> CancelRows] /\ reading \in [Readers -> SUBSET Reports]

\* There is an envelope once it was sent, and a row when the sending is over.
SentFirst ==
    /\ sending = "no" =>
          envelope.at = "none" /\ due = 0 /\ \A r \in Readers : reading[r] = {}
    /\ sending # "no" => envelope.at # "none"
    /\ paper.status # "none" => sending = "over"
    /\ sending = "over" => paper.status # "none" \/ unheard

\* A cancellation the provider agreed to, and a report of an end, say how the envelope ended;
\* so does the request.
EndsAgree ==
    /\ \A c \in Cancellers : canceller[c].step = "agreed" => envelope.at = "cancelled"
    /\ \A c \in Cancellers : canceller[c].step # "idle" => paper.status # "none"
    /\ \A r \in Readers : \A report \in reading[r] :
          /\ report.says \in {"completed", "declined"} => envelope.at = report.says
          /\ report.says = "cancelled" => envelope.at \in {"cancelled", "deleted"}
    /\ paper.status \in {"completed", "declined"} => envelope.at = paper.status
    /\ paper.status = "cancelled" => envelope.at \in {"cancelled", "deleted"}
    /\ paper.filed = IF paper.status = "completed" THEN 1 ELSE 0

NewsComes ==
    /\ envelope.at \in Ended =>
          \/ paper.status = envelope.at \/ unheard \/ due > 0
          \/ \E r \in Readers : \E report \in reading[r] : report.says = envelope.at
    /\ envelope.at = "open" =>
          \A s \in envelope.signed :
             \/ paper.marks[s] = "signed" \/ unheard \/ due > 0
             \/ \E r \in Readers : \E report \in reading[r] : report.says = "signed" /\ s \in report.of

SignInv == SignTypes /\ SentFirst /\ EndsAgree /\ NewsComes

LEMMA MarkTypes == Pending \in MarkSets
BY DEF Pending, MarkSets

LEMMA SignInvInit == SignInit => SignInv
<1> SUFFICES ASSUME SignInit PROVE SignInv
  OBVIOUS
<1>1. Pending \in MarkSets
  BY MarkTypes
<1>2. envelope \in Envelopes /\ paper \in RequestRows
  BY <1>1 DEF SignInit, Envelopes, RequestRows, Ended
<1>3. canceller \in [Cancellers -> CancelRows] /\ reading \in [Readers -> SUBSET Reports]
  BY <1>1 DEF SignInit, CancelRows
<1>4. SignTypes
  BY <1>2, <1>3 DEF SignInit, SignTypes
<1>5. SentFirst /\ EndsAgree /\ NewsComes
  BY DEF SignInit, SentFirst, EndsAgree, NewsComes, Ended
<1>6. QED BY <1>4, <1>5 DEF SignInv

\* The envelope changes while it is open, or is made; an event says so.
LEMMA EnvelopeChanges ==
    ASSUME SignInv, envelope' \in Envelopes, due' \in Nat,
           envelope.at \in {"none", "open"}, envelope'.at # "none",
           sending' \in {"answered", "over"}, sending' = sending \/ sending = "no",
           sending = "no" => sending' = "answered",
           due' > 0 \/ envelope'.at = "deleted",
           UNCHANGED <<paper, canceller, reading, unheard>>
    PROVE  SignInv'
<1>1. SignTypes'
  BY DEF SignInv, SignTypes
<1>2. SentFirst'
  BY DEF SignInv, SentFirst
<1>3. EndsAgree'
  BY DEF SignInv, EndsAgree, Ended
<1>4. NewsComes'
  BY DEF SignInv, NewsComes, Ended
<1>5. QED BY <1>1, <1>2, <1>3, <1>4 DEF SignInv

LEMMA SignsStep == ASSUME SignInv, NEW s \in Signers, Sign(s) \/ Refuse(s) PROVE SignInv'
<1>1. envelope \in Envelopes /\ due \in Nat /\ envelope.at = "open" /\ sending \in {"answered", "over"}
  BY DEF Sign, Refuse, SignInv, SignTypes, SentFirst
<1>2. CASE Sign(s)
  <2> DEFINE at == IF envelope.signed \cup {s} = Signers THEN "completed" ELSE "open"
  <2>1. at \in {"open"} \cup Ended /\ envelope.signed \cup {s} \in SUBSET Signers
    BY <1>1 DEF Ended, Envelopes
  <2>2. envelope' = [envelope EXCEPT !.signed = envelope.signed \cup {s}, !.at = at]
    BY <1>1, <1>2 DEF Sign, Envelopes
  <2> HIDE DEF at
  <2>3. envelope' \in Envelopes /\ envelope'.at = at
    BY <1>1, <2>1, <2>2 DEF Envelopes
  <2>4. due' \in Nat /\ due' > 0 /\ UNCHANGED <<paper, sending, canceller, reading, unheard>>
    BY <1>1, <1>2 DEF Sign
  <2>5. at # "none"
    BY <2>1 DEF Ended
  <2>6. QED BY <1>1, <2>3, <2>4, <2>5, EnvelopeChanges
<1>3. CASE Refuse(s)
  <2>1. envelope' \in Envelopes /\ envelope'.at = "declined"
    BY <1>1, <1>3 DEF Refuse, Envelopes, Ended
  <2>2. due' \in Nat /\ due' > 0 /\ UNCHANGED <<paper, sending, canceller, reading, unheard>>
    BY <1>1, <1>3 DEF Refuse
  <2>3. QED BY <1>1, <2>1, <2>2, EnvelopeChanges
<1>4. QED BY <1>2, <1>3

LEMMA EndsAtProviderStep ==
    ASSUME SignInv, NEW end \in {"cancelled", "deleted"}, EndAtProvider(end) PROVE SignInv'
<1>1. envelope \in Envelopes /\ due \in Nat /\ envelope.at = "open" /\ sending \in {"answered", "over"}
  BY DEF EndAtProvider, SignInv, SignTypes, SentFirst
<1>2. envelope' \in Envelopes /\ envelope'.at = end
  BY <1>1 DEF EndAtProvider, Envelopes, Ended
<1>3. due' \in Nat /\ (due' > 0 \/ end = "deleted") /\ UNCHANGED <<paper, sending, canceller, reading, unheard>>
  BY <1>1 DEF EndAtProvider
<1>4. QED BY <1>1, <1>2, <1>3, EnvelopeChanges

LEMMA SendStep == ASSUME SignInv, Send PROVE SignInv'
<1>1. envelope \in Envelopes /\ due \in Nat /\ envelope.at = "none" /\ sending = "no"
  BY DEF Send, SignInv, SignTypes, SentFirst
<1>2. envelope' \in Envelopes /\ envelope'.at = "open"
  BY <1>1 DEF Send, Envelopes, Ended
<1>3. due' \in Nat /\ due' > 0 /\ sending' = "answered" /\ UNCHANGED <<paper, canceller, reading, unheard>>
  BY <1>1 DEF Send
<1>4. QED BY <1>1, <1>2, <1>3, EnvelopeChanges

LEMMA RowStep == ASSUME SignInv, MakeRow \/ LoseRow PROVE SignInv'
<1>1. CASE MakeRow
  <2>1. paper \in RequestRows /\ paper.status = "none"
    BY <1>1 DEF MakeRow, SignInv, SignTypes, SentFirst
  <2>2. /\ paper' \in RequestRows /\ paper'.status = "sent" /\ paper'.marks = paper.marks
        /\ paper'.filed = paper.filed
    BY <1>1, <2>1 DEF MakeRow, RequestRows
  <2>3. sending = "answered" /\ sending' = "over" /\ UNCHANGED <<envelope, due, canceller, reading, unheard>>
    BY <1>1 DEF MakeRow
  <2>4. SignTypes' /\ SentFirst'
    BY <2>2, <2>3 DEF SignInv, SignTypes, SentFirst
  <2>5. EndsAgree' /\ NewsComes'
    BY <2>1, <2>2, <2>3 DEF SignInv, EndsAgree, NewsComes, Ended
  <2>6. QED BY <2>4, <2>5 DEF SignInv
<1>2. CASE LoseRow
  BY <1>2 DEF LoseRow, SignInv, SignTypes, SentFirst, EndsAgree, NewsComes
<1>3. QED BY <1>1, <1>2

\* A cancellation goes on; nothing else does.
LEMMA CancellerMoves ==
    ASSUME SignInv, NEW c \in Cancellers, NEW r \in CancelRows, canceller' = [canceller EXCEPT ![c] = r],
           r.step = "agreed" => envelope.at = "cancelled", r.step # "idle" => paper.status # "none",
           UNCHANGED <<envelope, due, paper, sending, reading, unheard>>
    PROVE  SignInv'
<1>1. /\ canceller' \in [Cancellers -> CancelRows] /\ canceller'[c] = r
      /\ \A d \in Cancellers \ {c} : canceller'[d] = canceller[d]
  BY DEF SignInv, SignTypes
<1>2. QED BY <1>1 DEF SignInv, SignTypes, SentFirst, EndsAgree, NewsComes

LEMMA CancelStep ==
    ASSUME SignInv, NEW c \in Cancellers,
           Cancel(c) \/ AskProvider(c) \/ SaveCancelled(c) \/ CancelFails(c)
    PROVE  SignInv'
<1> DEFINE idle == [step |-> "idle", marks |-> Pending]
<1>1. idle \in CancelRows /\ idle.step = "idle" /\ canceller[c] \in CancelRows /\ paper \in RequestRows
  BY MarkTypes DEF CancelRows, SignInv, SignTypes
<1>2. CASE Cancel(c)
  <2> DEFINE asking == [step |-> "asking", marks |-> paper.marks]
  <2>1. asking \in CancelRows /\ asking.step = "asking" /\ paper.status # "none"
    BY <1>1, <1>2 DEF Cancel, CancelRows, RequestRows
  <2>2. canceller' = [canceller EXCEPT ![c] = asking]
        /\ UNCHANGED <<envelope, due, paper, sending, reading, unheard>>
    BY <1>2 DEF Cancel
  <2> HIDE DEF asking
  <2>3. QED BY <2>1, <2>2, CancellerMoves
<1>3. CASE CancelFails(c)
  <2>1. canceller' = [canceller EXCEPT ![c] = idle]
        /\ UNCHANGED <<envelope, due, paper, sending, reading, unheard>>
    BY <1>3 DEF CancelFails
  <2> HIDE DEF idle
  <2>2. QED BY <1>1, <2>1, CancellerMoves
<1>4. CASE AskProvider(c)
  <2>1. CASE envelope.at = "open"
    <3> DEFINE agreed == [canceller[c] EXCEPT !.step = "agreed"]
    <3>1. agreed \in CancelRows /\ agreed.step = "agreed"
      BY <1>1 DEF CancelRows
    <3>2. /\ canceller' = [canceller EXCEPT ![c] = agreed] /\ due' = due + 1
          /\ envelope' = [envelope EXCEPT !.at = "cancelled"]
          /\ UNCHANGED <<paper, sending, reading, unheard>> /\ canceller[c].step = "asking"
      BY <1>4, <2>1 DEF AskProvider, SignInv, SignTypes
    <3> HIDE DEF agreed
    <3>3. envelope' \in Envelopes /\ envelope'.at = "cancelled" /\ due' \in Nat /\ due' > 0
      BY <3>2 DEF SignInv, SignTypes, Envelopes, Ended
    <3>4. /\ canceller' \in [Cancellers -> CancelRows] /\ canceller'[c] = agreed
          /\ \A d \in Cancellers \ {c} : canceller'[d] = canceller[d]
      BY <3>1, <3>2 DEF SignInv, SignTypes
    <3>5. SignTypes' /\ SentFirst'
      BY <2>1, <3>2, <3>3, <3>4 DEF SignInv, SignTypes, SentFirst
    <3>6. EndsAgree'
      BY <2>1, <3>2, <3>3, <3>4 DEF SignInv, EndsAgree, Ended
    <3>7. NewsComes'
      BY <3>3 DEF NewsComes
    <3>8. QED BY <3>5, <3>6, <3>7 DEF SignInv
  <2>2. CASE envelope.at # "open"
    <3>1. canceller' = [canceller EXCEPT ![c] = idle]
          /\ UNCHANGED <<envelope, due, paper, sending, reading, unheard>>
      BY <1>4, <2>2 DEF AskProvider
    <3> HIDE DEF idle
    <3>2. QED BY <1>1, <3>1, CancellerMoves
  <2>3. QED BY <2>1, <2>2
<1>5. CASE SaveCancelled(c)
  <2>1. /\ canceller' = [canceller EXCEPT ![c] = idle] /\ canceller[c].step = "agreed"
        /\ paper' = [paper EXCEPT !.status = "cancelled", !.marks = canceller[c].marks]
        /\ UNCHANGED <<envelope, due, sending, reading, unheard>>
    BY <1>5 DEF SaveCancelled
  <2> HIDE DEF idle
  <2>2. envelope.at = "cancelled" /\ paper.status # "none" /\ sending = "over" /\ paper.filed = 0
    BY <2>1 DEF SignInv, EndsAgree, SentFirst
  <2>3. /\ canceller' \in [Cancellers -> CancelRows] /\ canceller'[c] = idle
        /\ \A d \in Cancellers \ {c} : canceller'[d] = canceller[d]
    BY <1>1, <2>1 DEF SignInv, SignTypes
  <2>4. paper' \in RequestRows /\ paper'.status = "cancelled" /\ paper'.filed = paper.filed
    BY <1>1, <2>1 DEF RequestRows, CancelRows, Ended
  <2>5. SignTypes' /\ SentFirst'
    BY <2>1, <2>2, <2>3, <2>4 DEF SignInv, SignTypes, SentFirst
  <2>6. EndsAgree'
    BY <1>1, <2>1, <2>2, <2>3, <2>4 DEF SignInv, EndsAgree
  <2>7. NewsComes'
    BY <2>1, <2>2, <2>4 DEF NewsComes
  <2>8. QED BY <2>5, <2>6, <2>7 DEF SignInv
<1>6. QED BY <1>2, <1>3, <1>4, <1>5

\* A worker asks the provider, which tells the envelope's end, or who has signed.
LEMMA TakeEventStep == ASSUME SignInv, NEW r \in Readers, TakeEvent(r) PROVE SignInv'
<1>1. /\ reading[r] = {} /\ due > 0 /\ due' = due - 1 /\ reading' = [reading EXCEPT ![r] = Answer]
      /\ UNCHANGED <<envelope, paper, sending, canceller, unheard>>
  BY DEF TakeEvent
<1>2. envelope \in Envelopes /\ due' \in Nat /\ sending # "no"
  BY <1>1 DEF SignInv, SignTypes, SentFirst
<1>3. Answer \subseteq Reports
  BY <1>2 DEF Answer, Reports, Ended, Envelopes
<1>4. /\ \A report \in Answer :
            /\ report.says \in {"completed", "declined"} => envelope.at = report.says
            /\ report.says = "cancelled" => envelope.at \in {"cancelled", "deleted"}
      /\ envelope.at \in Ended => \E report \in Answer : report.says = envelope.at
      /\ envelope.at = "open" =>
            \A s \in envelope.signed : \E report \in Answer : report.says = "signed" /\ s \in report.of
  <2>1. CASE envelope.at \in {"completed", "declined"}
    <3>1. Answer = {[says |-> envelope.at, of |-> envelope.refused]}
      BY <2>1 DEF Answer
    <3>2. QED BY <2>1, <3>1
  <2>2. CASE envelope.at \in {"cancelled", "deleted"}
    <3>1. Answer = {[says |-> "cancelled", of |-> {}]}
      BY <2>2 DEF Answer
    <3>2. QED BY <2>2, <3>1 DEF Ended
  <2>3. CASE envelope.at \notin {"completed", "declined", "cancelled", "deleted"}
    <3>1. Answer = {[says |-> "signed", of |-> {s}] : s \in envelope.signed}
      BY <2>3 DEF Answer
    <3>2. \A s \in envelope.signed : \E report \in Answer : report.says = "signed" /\ s \in report.of
      <4>1. ASSUME NEW s \in envelope.signed PROVE [says |-> "signed", of |-> {s}] \in Answer
        BY <3>1
      <4>2. \A s : [says |-> "signed", of |-> {s}].says = "signed" /\ s \in [says |-> "signed", of |-> {s}].of
        OBVIOUS
      <4>3. QED BY <4>1, <4>2
    <3>3. \A report \in Answer : report.says = "signed"
      BY <3>1
    <3>4. QED BY <2>3, <3>2, <3>3 DEF Ended
  <2>4. QED BY <2>1, <2>2, <2>3
<1>5. /\ reading' \in [Readers -> SUBSET Reports] /\ reading'[r] = Answer
      /\ \A q \in Readers \ {r} : reading'[q] = reading[q]
  BY <1>1, <1>3 DEF SignInv, SignTypes
<1>6. SignTypes' /\ SentFirst'
  BY <1>1, <1>2, <1>5 DEF SignInv, SignTypes, SentFirst
<1>7. EndsAgree'
  BY <1>1, <1>4, <1>5 DEF SignInv, EndsAgree
<1>8. NewsComes'
  BY <1>1, <1>4, <1>5 DEF NewsComes
<1>9. QED BY <1>6, <1>7, <1>8 DEF SignInv

LEMMA StoreReportStep ==
    ASSUME SignInv, NEW r \in Readers, NEW report \in Reports, StoreReport(r, report) PROVE SignInv'
<1>1. /\ report \in reading[r] /\ reading' = [reading EXCEPT ![r] = reading[r] \ {report}]
      /\ paper' = IF paper.status = "sent" THEN Stored(report) ELSE paper
      /\ UNCHANGED <<envelope, due, sending, canceller>>
  BY DEF StoreReport, SignInv, SignTypes
<1>2. unheard' \in BOOLEAN /\ (unheard' <=> unheard \/ paper.status = "none")
  BY DEF StoreReport, SignInv, SignTypes
<1>3. /\ reading' \in [Readers -> SUBSET Reports]
      /\ \A q \in Readers : reading'[q] \subseteq reading[q]
      /\ \A q \in Readers : \A other \in reading[q] : other # report => other \in reading'[q]
  BY <1>1 DEF SignInv, SignTypes
<1>4. paper \in RequestRows /\ paper.marks \in MarkSets /\ paper.filed \in Nat
  BY DEF SignInv, SignTypes, RequestRows
<1>5. Marked(report) \in MarkSets
  BY <1>4 DEF Marked, MarkSets
<1>6. \A s \in Signers :
          paper.marks[s] = "signed" /\ report.says = "signed" => Marked(report)[s] = "signed"
  BY DEF Marked
<1>7. \A s \in Signers : report.says = "signed" /\ s \in report.of => Marked(report)[s] = "signed"
  BY DEF Marked
<1>8. CASE paper.status = "sent"
  <2>1. paper' = Stored(report)
    BY <1>1, <1>8
  <2>2. /\ paper'.status = IF report.says \in Ended THEN report.says ELSE "sent"
        /\ paper'.marks = Marked(report)
        /\ paper'.filed = paper.filed + IF report.says = "completed" THEN 1 ELSE 0
    BY <1>8, <2>1 DEF Stored
  <2>3. paper' \in RequestRows
    <3>1. /\ (IF report.says \in Ended THEN report.says ELSE paper.status) \in {"none", "sent"} \cup Ended
          /\ paper.filed + (IF report.says = "completed" THEN 1 ELSE 0) \in Nat
      BY <1>4, <1>8
    <3>2. QED BY <1>5, <2>1, <3>1 DEF Stored, RequestRows
  <2>4. /\ report.says \in {"completed", "declined"} => envelope.at = report.says
        /\ report.says = "cancelled" => envelope.at \in {"cancelled", "deleted"}
        /\ paper.filed = 0 /\ sending = "over"
    BY <1>1, <1>8 DEF SignInv, EndsAgree, SentFirst
  <2>5. SignTypes' /\ SentFirst'
    BY <1>1, <1>2, <1>3, <2>2, <2>3, <2>4 DEF SignInv, SignTypes, SentFirst, Ended
  <2>6. EndsAgree'
    BY <1>1, <1>3, <1>8, <2>2, <2>4 DEF SignInv, EndsAgree, Ended
  <2>7. report.says \in Ended \cup {"signed"} /\ envelope.signed \subseteq Signers
    BY DEF Reports, SignInv, SignTypes, Envelopes
  <2>8. envelope.at = "open" => report.says = "signed"
    BY <2>4, <2>7 DEF Ended
  <2>9. envelope.at \in Ended /\ report.says = envelope.at => paper'.status = envelope.at
    BY <2>2
  <2>10. NewsComes'
    <3>1. envelope.at \in Ended =>
              \/ paper'.status = envelope.at \/ unheard' \/ due > 0
              \/ \E q \in Readers : \E other \in reading'[q] : other.says = envelope.at
      BY <1>2, <1>3, <1>8, <2>9 DEF SignInv, NewsComes, Ended
    <3>2. ASSUME envelope.at = "open", NEW s \in envelope.signed
          PROVE  \/ paper'.marks[s] = "signed" \/ unheard' \/ due > 0
                 \/ \E q \in Readers : \E other \in reading'[q] : other.says = "signed" /\ s \in other.of
      BY <1>2, <1>3, <1>6, <1>7, <2>2, <2>7, <2>8, <3>2 DEF SignInv, NewsComes
    <3>3. QED BY <1>1, <3>1, <3>2 DEF NewsComes
  <2>11. QED BY <2>5, <2>6, <2>10 DEF SignInv
<1>9. CASE paper.status # "sent"
  <2>1. paper' = paper
    BY <1>1, <1>9
  <2>2. SignTypes' /\ SentFirst' /\ EndsAgree'
    BY <1>1, <1>2, <1>3, <2>1 DEF SignInv, SignTypes, SentFirst, EndsAgree
  <2>3. envelope.at \in Ended \cup {"open"} /\ paper.status # "none" => paper.status = envelope.at
    BY <1>4, <1>9 DEF SignInv, EndsAgree, RequestRows, Ended
  <2>4. envelope.at = "open" => paper.status = "none"
    BY <1>4, <1>9 DEF SignInv, EndsAgree, RequestRows, Ended
  <2>5. NewsComes'
    BY <1>1, <1>2, <2>1, <2>3, <2>4 DEF NewsComes
  <2>6. QED BY <2>2, <2>5 DEF SignInv
<1>10. QED BY <1>8, <1>9

LEMMA SignInvStep == SignInv /\ [SignNext]_signVars => SignInv'
<1> SUFFICES ASSUME SignInv, [SignNext]_signVars PROVE SignInv'
  OBVIOUS
<1>1. CASE EventFails
  BY <1>1 DEF EventFails, SignInv, SignTypes, SentFirst, EndsAgree, NewsComes
<1>2. CASE UNCHANGED signVars
  BY <1>2 DEF signVars, SignInv, SignTypes, SentFirst, EndsAgree, NewsComes
<1>3. QED
  BY <1>1, <1>2, SignsStep, EndsAtProviderStep, SendStep, RowStep, CancelStep, TakeEventStep,
     StoreReportStep DEF SignNext

\* A signature request ends as its envelope did: its copy is filed once, when all have signed,
\* and when nothing is under way and nothing went unheard it shows where the envelope stands
\* (services.cancel, handle_webhook, records.store).
THEOREM SignedAsKept == SignSpec => []RequestAsSigned
<1>1. ASSUME SignInv PROVE RequestAsSigned
  <2>1. FiledOnceSigned
    BY <1>1 DEF SignInv, EndsAgree, FiledOnceSigned
  <2>2. envelope.at \in {"none", "open", "deleted"} \cup Ended /\ paper.status \in {"none", "sent"} \cup Ended
        /\ envelope.signed \subseteq Signers
    BY <1>1 DEF SignInv, SignTypes, Envelopes, RequestRows
  <2>3. OutcomeKnown
    BY <1>1, <2>2 DEF SignInv, SentFirst, EndsAgree, NewsComes, OutcomeKnown, Ended
  <2>4. QED BY <2>1, <2>3 DEF RequestAsSigned
<1>2. QED BY <1>1, SignInvInit, SignInvStep, PTL DEF SignSpec

----------------------------------------------------------------------------
\* The second step.  What makes CodesWorkOnce inductive is where what was used is kept: the
\* app's codes under the device's last counter, the recovery codes no longer among the
\* spare ones; and that a device that is not confirmed has had no code used.

Counts == Nat
Tallies == Int
Devices == [number : Counts, there : BOOLEAN, confirmed : BOOLEAN, last : Counts, failed : Tallies,
            locked : BOOLEAN]
AppUsed(n, c) == <<n, <<"app", c>>>> \in used

SecondInv ==
    /\ clock \in Nat /\ sets \in Nat /\ again \in BOOLEAN /\ redone \in BOOLEAN
    /\ device \in Devices
    /\ spare \subseteq 1..sets
    /\ device.confirmed => device.there
    /\ \A n, c \in Nat : AppUsed(n, c) => n <= device.number
    /\ \A k \in Nat : <<1, <<"spare", k>>>> \in used => k <= sets /\ k \notin spare
    /\ ~redone /\ device.there =>
          \A c \in Nat : AppUsed(device.number, c) => device.confirmed /\ c <= device.last
    /\ CodesWorkOnce

LEMMA DeviceTypes ==
    /\ \A n : n \in Counts <=> n \in Nat
    /\ 0 \in Tallies /\ \A n \in Tallies : n + 1 \in Tallies
BY DEF Counts, Tallies

LEMMA SecondInvInit == SecondInit => SecondInv
<1> SUFFICES ASSUME SecondInit PROVE SecondInv
  OBVIOUS
<1>1. device \in Devices /\ ~device.confirmed /\ ~device.there
  <2>1. 0 \in Counts /\ 0 \in Tallies
    BY DeviceTypes
  <2>2. QED BY <2>1 DEF SecondInit, Devices
<1>2. clock \in Nat /\ sets \in Nat /\ again \in BOOLEAN /\ redone \in BOOLEAN /\ ~again
      /\ used = {} /\ spare = {}
  BY DEF SecondInit
<1>3. QED BY <1>1, <1>2 DEF SecondInv, AppUsed, CodesWorkOnce

\* A code is checked: it is taken if it was not used, and then it is used.
LEMMA CodeChecked == ASSUME SecondInv, NEW code \in Codes, CheckSecondFactor(code) PROVE SecondInv'
<1>1. UNCHANGED <<clock, sets, redone>>
  BY DEF CheckSecondFactor
<1>2. CASE Outcome(code) = "accepted" /\ ByApp(code)
  <2>1. /\ device.confirmed /\ ~device.locked
        /\ device' = [device EXCEPT !.failed = 0, !.last = code[2]] /\ spare' = spare
        /\ used' = used \cup {Uses(code)} /\ again' = (again \/ Uses(code) \in used)
    BY <1>2 DEF CheckSecondFactor, Outcome
  <2>2. PICK c \in 1..(MaxTime + 1) : code = <<"app", c>>
    BY <1>2 DEF ByApp, Codes
  <2>3. c \in Nat /\ c > device.last /\ Uses(code) = <<device.number, <<"app", c>>>>
    BY <1>2, <2>2, TwoFactorAssumption DEF ByApp, CodeMatches, Uses
  <2>4. device' = [device EXCEPT !.failed = 0, !.last = c]
    BY <2>1, <2>2
  <2>5. /\ device'.number = device.number /\ device'.confirmed /\ device'.there /\ device'.last = c
        /\ device' \in Devices
    <3>1. device \in Devices /\ (device.confirmed => device.there)
      BY DEF SecondInv
    <3>2. 0 \in Tallies /\ c \in Counts
      BY <2>3, DeviceTypes
    <3>3. QED BY <2>1, <2>4, <3>1, <3>2 DEF Devices
  <2>6. \A n, d \in Nat : AppUsed(n, d)' <=> AppUsed(n, d) \/ (n = device.number /\ d = c)
    BY <2>1, <2>3 DEF AppUsed
  <2>7. \A k \in Nat : <<1, <<"spare", k>>>> \in used' => <<1, <<"spare", k>>>> \in used
    BY <2>1, <2>3
  <2>8. ~redone => Uses(code) \notin used
    <3>1. device.number \in Nat /\ device.last \in Nat
      BY DeviceTypes DEF SecondInv, Devices
    <3>2. Uses(code) \in used => AppUsed(device.number, c)
      BY <2>3 DEF AppUsed
    <3>3. QED BY <2>1, <2>3, <3>1, <3>2 DEF SecondInv
  <2>9. again' \in BOOLEAN /\ CodesWorkOnce'
    BY <1>1, <2>1, <2>8 DEF SecondInv, CodesWorkOnce
  <2>10. \A n, d \in Nat : AppUsed(n, d)' => n <= device'.number
    BY <2>5, <2>6, DeviceTypes DEF SecondInv, Devices
  <2>11. ~redone' /\ device'.there =>
            \A d \in Nat : AppUsed(device.number, d)' => device'.confirmed /\ d <= device'.last
    <3>1. device.number \in Nat /\ device.last \in Nat
      BY DeviceTypes DEF SecondInv, Devices
    <3>2. QED BY <1>1, <2>1, <2>3, <2>5, <2>6, <3>1 DEF SecondInv
  <2>12. \A k \in Nat : <<1, <<"spare", k>>>> \in used' => k <= sets' /\ k \notin spare'
    BY <1>1, <2>1, <2>7 DEF SecondInv
  <2>13. QED BY <1>1, <2>1, <2>5, <2>9, <2>10, <2>11, <2>12 DEF SecondInv, AppUsed
<1>3. CASE Outcome(code) = "accepted" /\ ~ByApp(code)
  <2>1. /\ device.confirmed /\ ~device.locked /\ BySpare(code)
        /\ device' = [device EXCEPT !.failed = 0] /\ spare' = spare \ {code[2]}
        /\ used' = used \cup {Uses(code)} /\ again' = (again \/ Uses(code) \in used)
    BY <1>3 DEF CheckSecondFactor, Outcome
  <2>2. PICK k \in 1..MaxSets : code = <<"spare", k>>
    BY <2>1 DEF BySpare, Codes
  <2>3. k \in Nat /\ k \in spare /\ Uses(code) = <<1, <<"spare", k>>>>
    BY <2>1, <2>2, TwoFactorAssumption DEF BySpare, Uses
  <2>4. /\ device'.number = device.number /\ device'.confirmed = device.confirmed
        /\ device'.there = device.there /\ device'.last = device.last
        /\ device' \in Devices
    <3>1. device \in Devices
      BY DEF SecondInv
    <3>2. 0 \in Tallies
      BY DeviceTypes
    <3>3. QED BY <2>1, <3>1, <3>2 DEF Devices
  <2>5. \A n, d \in Nat : AppUsed(n, d)' <=> AppUsed(n, d)
    BY <2>1, <2>3 DEF AppUsed
  <2>6. \A j \in Nat : <<1, <<"spare", j>>>> \in used' => <<1, <<"spare", j>>>> \in used \/ j = k
    BY <2>1, <2>3
  <2>7. Uses(code) \notin used
    BY <2>3 DEF SecondInv
  <2>8. again' \in BOOLEAN /\ CodesWorkOnce'
    BY <1>1, <2>1, <2>7 DEF SecondInv, CodesWorkOnce
  <2>9. spare' = spare \ {k} /\ k <= sets
    BY <2>1, <2>2, <2>3 DEF SecondInv
  <2>10. \A j \in Nat : <<1, <<"spare", j>>>> \in used' => j <= sets' /\ j \notin spare'
    BY <1>1, <2>3, <2>6, <2>9 DEF SecondInv
  <2>11. spare' \subseteq 1..sets' /\ clock' \in Nat /\ sets' \in Nat /\ redone' \in BOOLEAN
    BY <1>1, <2>9 DEF SecondInv
  <2>12. /\ \A n, d \in Nat : AppUsed(n, d)' => n <= device'.number
         /\ ~redone' /\ device'.there =>
               \A d \in Nat : AppUsed(device.number, d)' => device'.confirmed /\ d <= device'.last
    <3>1. device.number \in Nat /\ device.last \in Nat
      BY DeviceTypes DEF SecondInv, Devices
    <3>2. QED BY <1>1, <2>4, <2>5, <3>1 DEF SecondInv
  <2>13. QED BY <2>1, <2>4, <2>8, <2>10, <2>11, <2>12 DEF SecondInv, AppUsed
<1>4. CASE Outcome(code) # "accepted"
  <2>1. UNCHANGED <<spare, used, again>>
    BY <1>4 DEF CheckSecondFactor
  <2>2. \/ device' = device
        \/ device' = [device EXCEPT !.failed = 0, !.locked = TRUE]
        \/ device' = [device EXCEPT !.failed = @ + 1]
    BY <1>4 DEF CheckSecondFactor, Outcome
  <2>3. /\ device'.number = device.number /\ device'.confirmed = device.confirmed
        /\ device'.there = device.there /\ device'.last = device.last
        /\ device' \in Devices
    <3>1. device \in Devices
      BY DEF SecondInv
    <3>2. 0 \in Tallies /\ device.failed + 1 \in Tallies
      BY <3>1, DeviceTypes DEF Devices
    <3>3. QED BY <2>2, <3>1, <3>2 DEF Devices
  <2>4. QED BY <1>1, <2>1, <2>3 DEF SecondInv, AppUsed, CodesWorkOnce
<1>5. QED BY <1>2, <1>3, <1>4

\* What leaves the device's codes and the recovery codes alone.
LEMMA CodesStay ==
    ASSUME SecondInv, UNCHANGED <<device, spare, sets, used, again, redone>>, clock' \in Nat
    PROVE  SecondInv'
BY DEF SecondInv, AppUsed, CodesWorkOnce

\* There is no device any more.
LEMMA DeviceGone ==
    ASSUME SecondInv, device' = NoDevice, spare' = {}, UNCHANGED <<clock, sets, used, again, redone>>
    PROVE  SecondInv'
<1>1. /\ device'.number = device.number /\ ~device'.confirmed /\ ~device'.there /\ device' \in Devices
  <2>1. device \in Devices /\ 0 \in Counts /\ 0 \in Tallies
    BY DeviceTypes DEF SecondInv
  <2>2. QED BY <2>1 DEF NoDevice, Devices
<1>2. QED BY <1>1 DEF SecondInv, AppUsed, CodesWorkOnce

\* A code that the app shows enrols the device: it had none used unless it was confirmed.
LEMMA ConfirmStep == ASSUME SecondInv, NEW s \in Sessions, NEW c \in 1..(MaxTime + 1), Confirm(s, c)
                     PROVE  SecondInv'
<1>1. CASE ~CodeMatches(c, 0)
  BY <1>1, CodesStay DEF Confirm, Does, Goes, SecondInv
<1>2. CASE CodeMatches(c, 0)
  <2>1. /\ device.there /\ device' = [device EXCEPT !.confirmed = TRUE, !.last = c]
        /\ sets' = sets + 1 /\ spare' = {sets + 1} /\ UNCHANGED <<clock, again>>
        /\ used' = used \cup {<<device.number, <<"app", c>>>>}
        /\ redone' = (redone \/ device.confirmed)
    BY <1>2 DEF Confirm, NewSet
  <2>2. c \in Nat /\ c \in Counts
    BY TwoFactorAssumption, DeviceTypes
  <2>3. device'.number = device.number /\ device'.confirmed /\ device'.there /\ device'.last = c
        /\ device' \in Devices
    <3>1. device \in Devices
      BY DEF SecondInv
    <3>2. QED BY <2>1, <2>2, <3>1 DEF Devices
  <2>4. device.number \in Nat /\ device.confirmed \in BOOLEAN /\ redone \in BOOLEAN
    BY DeviceTypes DEF SecondInv, Devices
  <2>5. \A n, d \in Nat : AppUsed(n, d)' <=> AppUsed(n, d) \/ (n = device.number /\ d = c)
    BY <2>1 DEF AppUsed
  <2>6. \A k \in Nat : <<1, <<"spare", k>>>> \in used' => <<1, <<"spare", k>>>> \in used
    BY <2>1
  <2>7. redone' \in BOOLEAN /\ (~redone' => ~redone /\ ~device.confirmed)
    BY <2>1, <2>4
  <2>8. \A n, d \in Nat : AppUsed(n, d)' => n <= device'.number
    BY <2>3, <2>4, <2>5 DEF SecondInv
  <2>9. ~redone' => \A d \in Nat : AppUsed(device.number, d)' => d <= device'.last
    BY <2>1, <2>2, <2>3, <2>4, <2>5, <2>7 DEF SecondInv
  <2>10. \A k \in Nat : <<1, <<"spare", k>>>> \in used' => k <= sets' /\ k \notin spare'
    BY <2>1, <2>6 DEF SecondInv
  <2>11. CodesWorkOnce'
    BY <2>1, <2>4 DEF SecondInv, CodesWorkOnce
  <2>12. QED BY <2>1, <2>3, <2>4, <2>7, <2>8, <2>9, <2>10, <2>11 DEF SecondInv, AppUsed
<1>3. QED BY <1>1, <1>2

LEMMA BeginEnrollingStep ==
    ASSUME SecondInv, NEW s \in Sessions, BeginEnrolling(s) PROVE SecondInv'
<1>1. CASE device.there
  BY <1>1, CodesStay DEF BeginEnrolling, SecondInv
<1>2. CASE ~device.there
  <2>1. device.number \in Nat
    BY DeviceTypes DEF SecondInv, Devices
  <2>2. /\ device' = [number |-> device.number + 1, there |-> TRUE, confirmed |-> FALSE,
                      last |-> 0, failed |-> 0, locked |-> FALSE]
        /\ UNCHANGED <<clock, spare, sets, used, again, redone>>
    BY <1>2 DEF BeginEnrolling
  <2>3. /\ device' \in Devices /\ ~device'.confirmed /\ device'.there
        /\ device'.number = device.number + 1
    <3>1. 0 \in Counts /\ 0 \in Tallies /\ device.number + 1 \in Counts
      BY <2>1, DeviceTypes
    <3>2. QED BY <2>2, <3>1 DEF Devices
  <2>4. \A n, d \in Nat : AppUsed(n, d)' => n <= device.number
    BY <2>2 DEF SecondInv, AppUsed
  <2>5. QED BY <2>1, <2>2, <2>3, <2>4 DEF SecondInv, AppUsed, CodesWorkOnce
<1>3. QED BY <1>1, <1>2

LEMMA SecondInvStep == SecondInv /\ [SecondNext]_secondVars => SecondInv'
<1> SUFFICES ASSUME SecondInv, [SecondNext]_secondVars PROVE SecondInv'
  OBVIOUS
<1>1. ASSUME NEW s \in Sessions, NEW yes \in BOOLEAN, SignIn(s, yes) PROVE SecondInv'
  BY <1>1, CodesStay DEF SignIn, Unchecked, SecondInv
<1>2. ASSUME NEW s \in Sessions, NEW yes \in BOOLEAN, TurnOff(s, yes) PROVE SecondInv'
  BY <1>2, CodesStay, DeviceGone DEF TurnOff, SecondInv
<1>3. ASSUME NEW s \in Sessions, Leave(s) \/ Abandon(s) PROVE SecondInv'
  BY <1>3, CodesStay DEF Leave, Abandon, Unchecked, SecondInv
<1>4. ASSUME NEW s \in Sessions, Renew(s) PROVE SecondInv'
  <2>1. /\ sets' = sets + 1 /\ spare' = {sets + 1} /\ UNCHANGED <<clock, device, used, again, redone>>
    BY <1>4 DEF Renew, NewSet
  <2>2. \A k \in Nat : <<1, <<"spare", k>>>> \in used' => k <= sets' /\ k \notin spare'
    BY <2>1 DEF SecondInv
  <2>3. QED BY <2>1, <2>2 DEF SecondInv, AppUsed, CodesWorkOnce
<1>5. ASSUME NEW s \in Sessions, NEW code \in Codes, Verify(s, code) PROVE SecondInv'
  BY <1>5, CodeChecked DEF Verify
<1>6. ASSUME NEW s \in Sessions, NEW code \in Codes, NEW what, CheckFirst(s, what, code) PROVE SecondInv'
  BY <1>6, CodeChecked DEF CheckFirst
<1>7. CASE Reset
  BY <1>7, DeviceGone DEF Reset
<1>8. ASSUME NEW unlock \in BOOLEAN, Tick(unlock) PROVE SecondInv'
  <2>1. device' = device \/ device' = [device EXCEPT !.locked = FALSE]
    BY <1>8 DEF Tick
  <2>2. /\ device'.number = device.number /\ device'.confirmed = device.confirmed
        /\ device'.there = device.there /\ device'.last = device.last /\ device' \in Devices
    <3>1. device \in Devices
      BY DEF SecondInv
    <3>2. QED BY <2>1, <3>1 DEF Devices
  <2>3. clock' \in Nat /\ UNCHANGED <<spare, sets, used, again, redone>>
    BY <1>8 DEF Tick, SecondInv
  <2>4. QED BY <2>2, <2>3 DEF SecondInv, AppUsed, CodesWorkOnce
<1>9. CASE UNCHANGED secondVars
  BY <1>9, CodesStay DEF secondVars, SecondInv
<1>10. QED
  BY <1>1, <1>2, <1>3, <1>4, <1>5, <1>6, <1>7, <1>8, <1>9, ConfirmStep, BeginEnrollingStep DEF SecondNext

\* No code lets anyone in twice, unless one device was confirmed twice (check_second_factor's
\* lock, the last counter, used_at).
THEOREM CodesKept == SecondSpec => []CodesWorkOnce
<1>1. SecondInv => CodesWorkOnce
  BY DEF SecondInv
<1>2. QED BY <1>1, SecondInvInit, SecondInvStep, PTL DEF SecondSpec

----------------------------------------------------------------------------
\* The identity provider: nothing is opened before there is a link.

AccountInv ==
    /\ link \in People \cup {NoAccount}
    /\ visit \in [Browsers -> Visits]
    /\ \A b \in Browsers : visit[b].at = "matched" => visit[b].who \in People
    /\ link = NoAccount => opened = {}
    /\ OneAccountEach

LEMMA AccountInvInit == ProviderInit => AccountInv
BY DEF ProviderInit, AccountInv, OneAccountEach, Out, Visits

LEMMA AccountInvStep == AccountInv /\ [ProviderNext]_providerVars => AccountInv'
<1> SUFFICES ASSUME AccountInv, [ProviderNext]_providerVars PROVE AccountInv'
  OBVIOUS
<1>1. Out \in Visits /\ Out.at = "out" /\ [at |-> "away", who |-> NoAccount] \in Visits
      /\ \A p \in People : [at |-> "matched", who |-> p] \in Visits
  BY DEF Out, Visits
<1>2. ASSUME NEW b \in Browsers, Start(b) \/ Refused(b) \/ NotVerified(b) PROVE AccountInv'
  BY <1>1, <1>2 DEF Start, Refused, NotVerified, OpensNothing, AccountInv, OneAccountEach
<1>3. ASSUME NEW b \in Browsers, OpenLinked(b) PROVE AccountInv'
  BY <1>1, <1>3 DEF OpenLinked, AccountInv, OneAccountEach
<1>4. ASSUME NEW b \in Browsers, MatchAccount(b) PROVE AccountInv'
  BY <1>1, <1>4 DEF MatchAccount, AccountInv, OneAccountEach, AccountsMatched
<1>5. ASSUME NEW b \in Browsers, LinkAndOpen(b) PROVE AccountInv'
  BY <1>1, <1>5, ProviderSignInAssumption DEF LinkAndOpen, AccountInv, OneAccountEach
<1>6. ASSUME UNCHANGED <<link, visit, opened>> PROVE AccountInv'
  BY <1>6 DEF AccountInv, OneAccountEach
<1>7. QED
  BY <1>2, <1>3, <1>4, <1>5, <1>6
     DEF ProviderNext, ChangeIdentity, ChangeAccount, ChangeOffer, providerVars

\* An identity opens one account, however its first sign-ins cross (staff_account,
\* get_or_create).
THEOREM AccountsKept == ProviderSpec => []OneAccountEach
<1>1. AccountInv => OneAccountEach
  BY DEF AccountInv
<1>2. QED BY <1>1, AccountInvInit, AccountInvStep, PTL DEF ProviderSpec

----------------------------------------------------------------------------
\* The second step and the provider side by side, as the run checks them: a step of the whole
\* is a step of each part, or leaves it alone.

\* Codes work once and an identity opens one account, in every behaviour of the composition
\* (check_second_factor, staff_account).
THEOREM SignInsKeptAll == Spec => []SignInsKept
<1>1. Init => SecondInv /\ AccountInv
  BY SecondInvInit, AccountInvInit DEF Init
<1>2. SecondInv /\ AccountInv /\ [Next]_allVars => (SecondInv /\ AccountInv)'
  <2>1. [Next]_allVars => [SecondNext]_secondVars /\ [ProviderNext]_providerVars
    BY DEF Next, allVars
  <2>2. QED BY <2>1, SecondInvStep, AccountInvStep
<1>3. SecondInv /\ AccountInv => SignInsKept
  BY DEF SecondInv, AccountInv, SignInsKept
<1>4. QED BY <1>1, <1>2, <1>3, PTL DEF Spec

----------------------------------------------------------------------------
\* The team.  While no request saved over a row that had changed, the account has the newest
\* hash, so that what was made from it is the newest invitation.

Hashes == Nat
AccountRows == [active : BOOLEAN, hash : Hashes, usable : BOOLEAN, seen : Hashes]
VisitRows == [job : TeamJobs \cup {"none"}, row : AccountRows, had : BOOLEAN]

TeamInv ==
    /\ person \in AccountRows /\ hashes \in Hashes /\ invitations \subseteq Hashes
    /\ work \in BOOLEAN /\ wanted \in BOOLEAN /\ overtook \in BOOLEAN
    /\ visitor \in [Visitors -> VisitRows]
    /\ \A k \in invitations : k <= hashes
    /\ ~overtook => /\ person.hash = hashes
                    /\ person.active <=> wanted
                    /\ work => person.active

LEMMA HashTypes ==
    /\ 0 \in Hashes
    /\ \A n \in Hashes : n + 1 \in Hashes /\ n <= n + 1
    /\ \A m, n \in Hashes : m <= n => m <= n + 1
BY DEF Hashes

LEMMA TeamTypes ==
    /\ Added \in AccountRows /\ NoVisit \in VisitRows /\ NoVisit.job = "none"
    /\ TeamInv => \A v \in Visitors : visitor[v].row \in AccountRows /\ visitor[v].had \in BOOLEAN
<1>1. Added \in AccountRows
  BY HashTypes DEF Added, AccountRows
<1>2. NoVisit \in VisitRows /\ NoVisit.job = "none"
  BY <1>1 DEF NoVisit, VisitRows
<1>3. TeamInv => \A v \in Visitors : visitor[v].row \in AccountRows /\ visitor[v].had \in BOOLEAN
  BY DEF TeamInv, VisitRows
<1>4. QED BY <1>1, <1>2, <1>3

LEMMA TeamInvInit == TeamInit => TeamInv
<1> SUFFICES ASSUME TeamInit PROVE TeamInv
  OBVIOUS
<1>1. /\ person = Added /\ hashes = 0 /\ invitations = {0} /\ work \in BOOLEAN /\ ~work
      /\ wanted \in BOOLEAN /\ wanted /\ overtook \in BOOLEAN
  BY DEF TeamInit
<1>2. visitor \in [Visitors -> VisitRows]
  BY TeamTypes DEF TeamInit
<1>3. Added.hash = 0 /\ Added.active
  BY DEF Added
<1>4. QED BY <1>1, <1>2, <1>3, TeamTypes, HashTypes DEF TeamInv, Hashes

\* A request ends having saved the row, with a new hash or the one that was read.
LEMMA VisitEnds ==
    ASSUME TeamInv, NEW v \in Visitors, EndsVisit(v),
           person' \in AccountRows, hashes' \in {hashes, hashes + 1},
           invitations' \subseteq invitations \cup {hashes'},
           work' \in BOOLEAN, wanted' \in BOOLEAN, overtook' \in BOOLEAN,
           ~overtook' => /\ ~overtook
                         /\ person'.hash = hashes'
                         /\ person'.active <=> wanted'
                         /\ work' => person'.active
    PROVE  TeamInv'
<1>1. visitor' \in [Visitors -> VisitRows]
  BY TeamTypes DEF TeamInv, EndsVisit
<1>2. hashes' \in Hashes /\ invitations' \subseteq Hashes /\ \A k \in invitations' : k <= hashes'
  BY HashTypes DEF TeamInv, Hashes
<1>3. QED BY <1>1, <1>2 DEF TeamInv

\* A request goes on, and saves nothing.
LEMMA VisitGoesOn ==
    ASSUME TeamInv, NEW v \in Visitors, NEW r \in VisitRows, visitor' = [visitor EXCEPT ![v] = r],
           UNCHANGED <<person, hashes, work, invitations, wanted, overtook>>
    PROVE  TeamInv'
BY DEF TeamInv

LEMMA TeamInvStep == TeamInv /\ [TeamNext]_teamVars => TeamInv'
<1> SUFFICES ASSUME TeamInv, [TeamNext]_teamVars PROVE TeamInv'
  OBVIOUS
<1>0. /\ person \in AccountRows /\ hashes \in Hashes /\ overtook \in BOOLEAN /\ wanted \in BOOLEAN
      /\ work \in BOOLEAN /\ hashes + 1 \in Hashes
  BY HashTypes DEF TeamInv
<1>1. ASSUME NEW v \in Visitors, SavePerson(v) \/ SaveProfile(v) PROVE TeamInv'
  <2>1. /\ person' = visitor[v].row /\ EndsVisit(v) /\ UNCHANGED <<hashes, work, invitations, wanted>>
        /\ overtook' = (overtook \/ visitor[v].row # person)
    BY <1>1 DEF SavePerson, SaveProfile, SaveAccountForm, Behind
  <2>2. overtook' \in BOOLEAN /\ (~overtook' => ~overtook /\ person' = person)
    BY <2>1, <1>0
  <2>3. person' \in AccountRows
    BY <2>1, TeamTypes
  <2>4. QED BY <1>0, <2>1, <2>2, <2>3, VisitEnds DEF TeamInv
<1>2. ASSUME NEW v \in Visitors, ChoosePassword(v) PROVE TeamInv'
  <2>1. /\ hashes' = hashes + 1 /\ person' = [visitor[v].row EXCEPT !.hash = hashes', !.usable = TRUE]
        /\ EndsVisit(v) /\ UNCHANGED <<work, invitations, wanted>>
        /\ overtook' = (overtook \/ visitor[v].row # person)
    BY <1>2 DEF ChoosePassword, Behind
  <2>2. overtook' \in BOOLEAN /\ (~overtook' => ~overtook /\ visitor[v].row = person)
    BY <2>1, <1>0
  <2>3. person' \in AccountRows /\ person'.hash = hashes' /\ person'.active = visitor[v].row.active
    BY <1>0, <2>1, TeamTypes DEF AccountRows
  <2>4. QED BY <1>0, <2>1, <2>2, <2>3, VisitEnds DEF TeamInv
<1>3. ASSUME NEW v \in Visitors, Invite(v) PROVE TeamInv'
  <2>1. /\ hashes' = hashes + 1 /\ person' = [person EXCEPT !.hash = hashes', !.usable = FALSE]
        /\ EndsVisit(v) /\ UNCHANGED <<work, wanted>> /\ invitations' = invitations \cup {hashes'}
        /\ overtook' = (overtook \/ visitor[v].row # person)
    BY <1>3 DEF Invite, Behind
  <2>2. overtook' \in BOOLEAN /\ (~overtook' => ~overtook)
    BY <2>1, <1>0
  <2>3. person' \in AccountRows /\ person'.hash = hashes' /\ person'.active = person.active
    BY <1>0, <2>1 DEF AccountRows
  <2>4. QED BY <1>0, <2>1, <2>2, <2>3, VisitEnds DEF TeamInv
<1>4. ASSUME NEW v \in Visitors, LogIn(v) PROVE TeamInv'
  <2>1. /\ person' = [person EXCEPT !.seen = @ + 1] /\ EndsVisit(v)
        /\ UNCHANGED <<hashes, work, invitations, wanted, overtook>>
    BY <1>4 DEF LogIn
  <2>2. person' \in AccountRows /\ person'.hash = person.hash /\ person'.active = person.active
    BY <1>0, <2>1, HashTypes DEF AccountRows
  <2>3. QED BY <1>0, <2>1, <2>2, VisitEnds DEF TeamInv
<1>5. ASSUME NEW v \in Visitors, HandOver(v) PROVE TeamInv'
  <2>1. /\ person' = [person EXCEPT !.active = FALSE] /\ EndsVisit(v) /\ wanted' = FALSE
        /\ UNCHANGED <<hashes, invitations>> /\ work' = (work /\ ~visitor[v].had)
        /\ overtook' = (overtook \/ work # visitor[v].had)
    BY <1>5 DEF HandOver
  <2>2. work' \in BOOLEAN /\ overtook' \in BOOLEAN /\ (~overtook' => ~overtook /\ ~work')
    BY <1>0, <2>1, TeamTypes
  <2>3. person' \in AccountRows /\ person'.hash = person.hash /\ person'.active = FALSE
    BY <1>0, <2>1 DEF AccountRows
  <2>4. QED BY <1>0, <2>1, <2>2, <2>3, VisitEnds DEF TeamInv
<1>6. ASSUME NEW v \in Visitors, Reactivate(v) PROVE TeamInv'
  <2>1. /\ person' = [person EXCEPT !.active = TRUE] /\ EndsVisit(v) /\ wanted' = TRUE
        /\ UNCHANGED <<hashes, invitations, work, overtook>>
    BY <1>6 DEF Reactivate
  <2>2. person' \in AccountRows /\ person'.hash = person.hash /\ person'.active = TRUE
    BY <1>0, <2>1 DEF AccountRows
  <2>3. QED BY <1>0, <2>1, <2>2, VisitEnds DEF TeamInv
<1>7. ASSUME NEW v \in Visitors, NEW yes \in BOOLEAN, Assign(v, yes) PROVE TeamInv'
  <2>1. /\ work' = yes /\ EndsVisit(v) /\ UNCHANGED <<person, hashes, invitations, wanted>>
        /\ overtook' = (overtook \/ (yes /\ ~person.active))
    BY <1>7 DEF Assign
  <2>2. work' \in BOOLEAN /\ overtook' \in BOOLEAN /\ (~overtook' => ~overtook /\ (work' => person.active))
    BY <1>0, <2>1 DEF AccountRows
  <2>3. QED BY <1>0, <2>1, <2>2, VisitEnds DEF TeamInv
<1>8. ASSUME NEW v \in Visitors, NEW job \in TeamJobs, BeginVisit(v, job) PROVE TeamInv'
  <2> DEFINE r == [job |-> job, row |-> person, had |-> FALSE]
  <2>1. r \in VisitRows
    BY <1>0 DEF VisitRows
  <2>2. visitor' = [visitor EXCEPT ![v] = r] /\ UNCHANGED <<person, hashes, work, invitations, wanted, overtook>>
    BY <1>8 DEF BeginVisit
  <2> HIDE DEF r
  <2>3. QED BY <2>1, <2>2, VisitGoesOn
<1>9. ASSUME NEW v \in Visitors, LookForWork(v) PROVE TeamInv'
  <2> DEFINE r == [visitor[v] EXCEPT !.job = "hand_over", !.had = work]
  <2>1. visitor[v] \in VisitRows /\ r \in VisitRows
    BY <1>0 DEF VisitRows, TeamJobs, TeamInv
  <2>2. visitor' = [visitor EXCEPT ![v] = r] /\ UNCHANGED <<person, hashes, work, invitations, wanted, overtook>>
    BY <1>9 DEF LookForWork
  <2> HIDE DEF r
  <2>3. QED BY <2>1, <2>2, VisitGoesOn
<1>10. ASSUME NEW v \in Visitors, AbandonVisit(v) PROVE TeamInv'
  BY <1>10, TeamTypes, VisitGoesOn DEF AbandonVisit, EndsVisit
<1>11. ASSUME NEW l \in invitations, ExpireLink(l) PROVE TeamInv'
  BY <1>11 DEF ExpireLink, TeamInv
<1>12. CASE UNCHANGED teamVars
  BY <1>12 DEF teamVars, TeamInv
<1>13. QED BY <1>1, <1>2, <1>3, <1>4, <1>5, <1>6, <1>7, <1>8, <1>9, <1>10, <1>11, <1>12 DEF TeamNext

\* Who makes a deactivated account active.
LEMMA WhoReactivates ==
    ASSUME TeamInv, TeamNext, ~person.active, person'.active
    PROVE  \E v \in Visitors :
              /\ visitor[v].job # "none" /\ visitor'[v].job = "none"
              /\ \/ visitor[v].job = "reactivate"
                 \/ visitor[v].job \in WholeRow /\ visitor[v].row.active
<1>1. person \in AccountRows /\ person' # person /\ \A v \in Visitors : visitor[v].row \in AccountRows
  BY TeamTypes DEF TeamInv
<1>2. ASSUME NEW v \in Visitors, EndsVisit(v) PROVE visitor'[v].job = "none"
  BY <1>2, TeamTypes DEF EndsVisit, TeamInv
<1>3. ASSUME NEW v \in Visitors, Invite(v) \/ LogIn(v) \/ HandOver(v) PROVE FALSE
  BY <1>1, <1>3 DEF Invite, LogIn, HandOver, AccountRows
<1>4. PICK v \in Visitors : SavePerson(v) \/ SaveProfile(v) \/ ChoosePassword(v) \/ Reactivate(v)
  BY <1>1, <1>3 DEF TeamNext, LookForWork, AbandonVisit, BeginVisit, Assign, ExpireLink
<1>5. visitor'[v].job = "none"
  BY <1>2, <1>4 DEF SavePerson, SaveProfile, SaveAccountForm, ChoosePassword, Reactivate
<1>6. CASE Reactivate(v)
  BY <1>5, <1>6 DEF Reactivate
<1>7. CASE SavePerson(v) \/ SaveProfile(v)
  <2>1. visitor[v].row.active
    BY <1>7 DEF SavePerson, SaveProfile, SaveAccountForm
  <2>2. QED BY <1>5, <1>7, <2>1 DEF SavePerson, SaveProfile, WholeRow
<1>8. CASE ChoosePassword(v)
  <2>1. visitor[v].row.active
    BY <1>1, <1>8 DEF ChoosePassword, AccountRows
  <2>2. QED BY <1>5, <1>8, <2>1 DEF ChoosePassword, WholeRow
<1>9. QED BY <1>4, <1>6, <1>7, <1>8

\* An account is as whoever manages staff left it (services.deactivate, services.invite,
\* AccountFields.save).
THEOREM AccountsAsLeft == TeamSpec => TeamInOrder
<1> DEFINE Back == ~person.active /\ person'.active =>
          \E v \in Visitors :
             /\ visitor[v].job # "none" /\ visitor'[v].job = "none"
             /\ visitor[v].job = "reactivate"
                   \/ (visitor[v].job \in WholeRow /\ visitor[v].row.active)
<1>1. TeamInv => AccountInOrder
  BY DEF TeamInv, AccountInOrder, Good, AccountRows
<1>2. TeamInv /\ [TeamNext]_teamVars => [Back]_teamVars
  BY WhoReactivates
<1>3. QED BY <1>1, <1>2, TeamInvInit, TeamInvStep, PTL DEF TeamSpec, TeamInOrder, BackIfReactivated

----------------------------------------------------------------------------
\* Shipments.  A delivery is noted when the row becomes a settled one, so that the deliveries
\* noted are at most what forms opened again, and one more if the row is settled; and who was
\* told of a delivery was told of one that stays.

Noted == Nat
ShipmentRows == [status : ParcelStatuses, track : BOOLEAN]
FormRows == [open : BOOLEAN, of : Parcels \cup {NoShipmentForm.of}, status : ParcelStatuses]
Arrived == package.event = "delivered" /\ ~package.back

ShipInv ==
    /\ carrier \in Carriers /\ package \in [event : Events, back : BOOLEAN]
    /\ shipment \in [Parcels -> ShipmentRows]
    /\ tracker \in [Trackers -> {"idle", "asking"} \cup ParcelStatuses \cup Problems]
    /\ typist \in [Typists -> FormRows]
    /\ \A y \in Typists : typist[y].open => typist[y].of \in Parcels
    /\ announced \in [Parcels -> Noted] /\ putBack \in [Parcels -> Noted]
    /\ \A t \in Trackers : tracker[t] = "delivered" => Arrived
    /\ \A s \in Parcels :
          /\ announced[s] <= putBack[s] + IF shipment[s].status \in Settled THEN 1 ELSE 0
          /\ announced[s] > 0 => Arrived

LEMMA NotedTypes ==
    /\ 0 \in Noted /\ \A n \in Noted : n \in Nat /\ n + 1 \in Noted
    /\ Fresh \in ShipmentRows /\ Fresh.status = "sent" /\ ~NoShipmentForm.open
    /\ Settled \subseteq ParcelStatuses /\ "sent" \notin Settled
    /\ ParcelStatuses \cap (Problems \cup {"idle", "asking"}) = {}
BY DEF Noted, Fresh, ShipmentRows, ParcelStatuses, NoShipmentForm, Settled, Problems

LEMMA FormTypes == NoShipmentForm \in FormRows
BY DEF NoShipmentForm, FormRows, ParcelStatuses

\* What each carrier says of a package is one of the CRM's words, and "delivered" only if it
\* reached whom it was for.
LEMMA StatusTypes ==
    ASSUME carrier \in Carriers, package \in [event : Events, back : BOOLEAN]
    PROVE  /\ StatusOf(package) \in ParcelStatuses
           /\ StatusOf(package) = "delivered" => Arrived
<1>1. package.event \in Events /\ package.back \in BOOLEAN
  OBVIOUS
<1>2. /\ UpsStatus(package) \in ParcelStatuses
      /\ UpsStatus(package) = "delivered" => Arrived
  BY <1>1 DEF UpsStatus, Arrived, Events, ParcelStatuses
<1>3. /\ UspsStatus(package) \in ParcelStatuses
      /\ UspsStatus(package) = "delivered" => Arrived
  <2>1. CASE package.back
    BY <2>1 DEF UspsStatus, ParcelStatuses
  <2>2. CASE ~package.back
    <3>1. /\ package.event = "label" => UspsStatus(package) = "sent"
          /\ package.event = "out" => UspsStatus(package) = "out_for_delivery"
          /\ package.event = "exception" => UspsStatus(package) = "problem"
          /\ package.event = "delivered" => UspsStatus(package) = "delivered"
          /\ package.event = "moving" => UspsStatus(package) = "in_transit"
      BY <2>2 DEF UspsStatus
    <3>2. QED BY <1>1, <2>2, <3>1 DEF Arrived, Events, ParcelStatuses
  <2>3. QED BY <2>1, <2>2
<1>4. /\ FedexStatus(package) \in ParcelStatuses
      /\ FedexStatus(package) = "delivered" => Arrived
  BY <1>1 DEF FedexStatus, Arrived, Events, ParcelStatuses
<1>5. QED BY <1>2, <1>3, <1>4 DEF StatusOf

\* The package goes on, if it was not delivered.
LEMMA MoveStep ==
    ASSUME ShipInv, NEW event \in Events, NEW back \in BOOLEAN, Move(event, back) PROVE ShipInv'
<1>1. /\ package.event # "delivered" /\ package' \in [event : Events, back : BOOLEAN]
      /\ UNCHANGED <<carrier, shipment, tracker, typist, announced, putBack, followUps>>
  BY DEF Move
<1>2. ~Arrived
  BY <1>1 DEF Arrived
<1>3. (\A t \in Trackers : tracker[t] # "delivered") /\ \A s \in Parcels : ~(announced[s] > 0)
  BY <1>2 DEF ShipInv
<1>4. QED BY <1>1, <1>3 DEF ShipInv

\* A run asks, is told, or fails.
LEMMA TrackerMoves ==
    ASSUME ShipInv, NEW t \in Trackers, NEW r \in {"idle", "asking"} \cup ParcelStatuses \cup Problems,
           tracker' = [tracker EXCEPT ![t] = r], r = "delivered" => Arrived,
           UNCHANGED <<carrier, package, shipment, typist, announced, putBack, followUps>>
    PROVE  ShipInv'
BY DEF ShipInv, Arrived

LEMMA StoreTrackingStep == ASSUME ShipInv, NEW t \in Trackers, StoreTracking(t) PROVE ShipInv'
<1> DEFINE answer == tracker[t]
           changed == {s \in Parcels : RowAfter(s, answer).status # shipment[s].status}
<1>1. /\ answer \notin {"idle", "asking"} /\ shipment' = [s \in Parcels |-> RowAfter(s, answer)]
      /\ announced' = [s \in Parcels |->
                         IF s \in changed /\ answer = "delivered" THEN announced[s] + 1
                         ELSE announced[s]]
      /\ tracker' = [tracker EXCEPT ![t] = "idle"] /\ UNCHANGED <<carrier, package, typist, putBack>>
  BY DEF StoreTracking
<1>2. answer \in ParcelStatuses \cup Problems
  BY <1>1 DEF ShipInv
<1>3. ASSUME NEW s \in Parcels
      PROVE  /\ RowAfter(s, answer) \in ShipmentRows
             /\ shipment[s].status \in Settled => RowAfter(s, answer) = shipment[s]
             /\ s \in changed => RowAfter(s, answer).status = answer
  <2>1. shipment[s] \in ShipmentRows
    BY DEF ShipInv
  <2>2. QED BY <1>2, <2>1 DEF RowAfter, Stores, ShipmentRows
<1>4. shipment' \in [Parcels -> ShipmentRows] /\ announced' \in [Parcels -> Noted]
  <2>1. \A s \in Parcels : announced[s] \in Noted /\ announced[s] + 1 \in Noted
    BY NotedTypes DEF ShipInv
  <2>2. QED BY <1>1, <1>3, <2>1
<1>5. ASSUME NEW s \in Parcels
      PROVE  /\ announced'[s] <= putBack'[s] + IF shipment'[s].status \in Settled THEN 1 ELSE 0
             /\ announced'[s] > 0 => Arrived
  <2>1. /\ announced[s] \in Nat /\ putBack[s] \in Nat /\ putBack' = putBack
        /\ announced[s] <= putBack[s] + IF shipment[s].status \in Settled THEN 1 ELSE 0
        /\ announced[s] > 0 => Arrived
    BY <1>1, NotedTypes DEF ShipInv
  <2>2. shipment'[s] = RowAfter(s, answer)
    BY <1>1
  <2>3. CASE s \in changed /\ answer = "delivered"
    <3>1. announced'[s] = announced[s] + 1 /\ Arrived
      BY <1>1, <2>3 DEF ShipInv
    <3>2. shipment[s].status \notin Settled /\ shipment'[s].status \in Settled
      BY <1>3, <2>2, <2>3 DEF Settled
    <3>3. QED BY <2>1, <3>1, <3>2
  <2>4. CASE ~(s \in changed /\ answer = "delivered")
    <3>1. announced'[s] = announced[s]
      BY <1>1, <2>4
    <3>2. shipment[s].status \in Settled => shipment'[s].status \in Settled
      BY <1>3, <2>2
    <3>3. QED BY <2>1, <3>1, <3>2
  <2>5. QED BY <2>3, <2>4
<1>6. /\ tracker' \in [Trackers -> {"idle", "asking"} \cup ParcelStatuses \cup Problems]
      /\ \A u \in Trackers : tracker'[u] = "delivered" => tracker[u] = "delivered"
  BY <1>1 DEF ShipInv
<1>7. Arrived' <=> Arrived
  BY <1>1 DEF Arrived
<1>8. QED BY <1>1, <1>4, <1>5, <1>6, <1>7 DEF ShipInv

LEMMA SaveShipmentStep ==
    ASSUME ShipInv, NEW y \in Typists, NEW status \in ParcelStatuses, NEW track \in BOOLEAN,
           SaveShipment(y, status, track)
    PROVE  ShipInv'
<1> DEFINE s == typist[y].of
           reopened == shipment[s].status \in Settled /\ status \notin Settled
           saved == [status |-> status, track |-> track]
<1>1. s \in Parcels /\ saved \in ShipmentRows /\ shipment[s] \in ShipmentRows /\ putBack[s] \in Noted
  BY DEF SaveShipment, ShipInv, ShipmentRows
<1>2. /\ shipment' = [shipment EXCEPT ![s].status = status, ![s].track = track]
      /\ putBack' = IF reopened THEN [putBack EXCEPT ![s] = putBack[s] + 1] ELSE putBack
      /\ typist' = [typist EXCEPT ![y] = NoShipmentForm]
      /\ UNCHANGED <<carrier, package, tracker, announced, followUps>>
  BY <1>1 DEF SaveShipment, ShipInv
<1>3. /\ shipment' \in [Parcels -> ShipmentRows] /\ shipment'[s].status = status
      /\ \A p \in Parcels \ {s} : shipment'[p] = shipment[p]
  BY <1>1, <1>2 DEF ShipInv, ShipmentRows
<1>4. /\ putBack' \in [Parcels -> Noted] /\ putBack'[s] = IF reopened THEN putBack[s] + 1 ELSE putBack[s]
      /\ \A p \in Parcels \ {s} : putBack'[p] = putBack[p]
  BY <1>1, <1>2, NotedTypes DEF ShipInv
<1>5. announced[s] \in Nat /\ putBack[s] \in Nat
      /\ announced[s] <= putBack[s] + IF shipment[s].status \in Settled THEN 1 ELSE 0
  BY <1>1, NotedTypes DEF ShipInv
<1>6. announced'[s] <= putBack'[s] + IF shipment'[s].status \in Settled THEN 1 ELSE 0
  BY <1>2, <1>3, <1>4, <1>5
<1>7. typist' \in [Typists -> FormRows]
  BY <1>1, <1>2, FormTypes DEF ShipInv
<1>8. Arrived' <=> Arrived
  BY <1>2 DEF Arrived
<1>9. \A z \in Typists : typist'[z].open => typist'[z].of \in Parcels
  BY <1>2, NotedTypes DEF ShipInv
<1>10. announced'[s] > 0 => Arrived'
  BY <1>1, <1>2, <1>8 DEF ShipInv
<1>11. \A p \in Parcels \ {s} :
          /\ announced'[p] <= putBack'[p] + IF shipment'[p].status \in Settled THEN 1 ELSE 0
          /\ announced'[p] > 0 => Arrived'
  BY <1>2, <1>3, <1>4, <1>8 DEF ShipInv
<1> HIDE DEF s
<1>12. QED BY <1>1, <1>2, <1>3, <1>4, <1>6, <1>7, <1>8, <1>9, <1>10, <1>11 DEF ShipInv

LEMMA ShipInvStep == ShipInv /\ [ShipNext]_shipVars => ShipInv'
<1> SUFFICES ASSUME ShipInv, [ShipNext]_shipVars PROVE ShipInv'
  OBVIOUS
<1>1. ASSUME NEW t \in Trackers, StartTracking(t) \/ TellStatus(t) \/ RunFails(t)
      PROVE  ShipInv'
  <2>1. StatusOf(package) \in ParcelStatuses /\ (StatusOf(package) = "delivered" => Arrived)
    BY StatusTypes DEF ShipInv
  <2>2. QED BY <1>1, <2>1, TrackerMoves DEF StartTracking, TellStatus, Told, RunFails
<1>2. ASSUME NEW t \in Trackers, NEW excuse \in Problems, TellProblem(t, excuse) PROVE ShipInv'
  <2>1. excuse # "delivered"
    BY DEF Problems
  <2>2. QED BY <1>2, <2>1, TrackerMoves DEF TellProblem, Told
<1>3. ASSUME NEW y \in Typists, NEW s \in Parcels, OpenShipment(y, s) PROVE ShipInv'
  <2> DEFINE r == [open |-> TRUE, of |-> s, status |-> shipment[s].status]
  <2>1. r \in FormRows
    BY DEF FormRows, ShipInv, ShipmentRows
  <2>2. typist' = [typist EXCEPT ![y] = r]
        /\ UNCHANGED <<carrier, package, shipment, tracker, announced, putBack, followUps>>
    BY <1>3 DEF OpenShipment
  <2>3. r.of \in Parcels
    OBVIOUS
  <2> HIDE DEF r
  <2>4. /\ typist' \in [Typists -> FormRows]
        /\ \A z \in Typists : typist'[z].open => typist'[z].of \in Parcels
    BY <2>1, <2>2, <2>3 DEF ShipInv
  <2>5. Arrived' <=> Arrived
    BY <2>2 DEF Arrived
  <2>6. QED BY <2>2, <2>4, <2>5 DEF ShipInv
<1>4. CASE UNCHANGED shipVars
  BY <1>4 DEF shipVars, ShipInv, Arrived
<1>5. QED BY <1>1, <1>2, <1>3, <1>4, MoveStep, StoreTrackingStep, SaveShipmentStep DEF ShipNext

LEMMA ShipInvInit == ShipInit => ShipInv
<1> SUFFICES ASSUME ShipInit PROVE ShipInv
  OBVIOUS
<1>1. shipment \in [Parcels -> ShipmentRows] /\ announced \in [Parcels -> Noted]
      /\ putBack \in [Parcels -> Noted]
  BY NotedTypes DEF ShipInit
<1>2. package \in [event : Events, back : BOOLEAN]
      /\ tracker \in [Trackers -> {"idle", "asking"} \cup ParcelStatuses \cup Problems]
      /\ \A t \in Trackers : tracker[t] # "delivered"
  BY DEF ShipInit, Events
<1>3. \A s \in Parcels : announced[s] = 0 /\ putBack[s] = 0
  BY DEF ShipInit
<1>4. typist \in [Typists -> FormRows]
  BY FormTypes DEF ShipInit
<1>5. \A y \in Typists : ~typist[y].open
  BY NotedTypes DEF ShipInit
<1>6. QED BY <1>1, <1>2, <1>3, <1>4, <1>5 DEF ShipInv, ShipInit

\* What a run's reading changes of a settled shipment, and what it makes tasks of.
LEMMA ReadingStep ==
    ASSUME ShipInv, ShipNext, NEW s \in Parcels, shipment'[s].status # shipment[s].status,
           UNCHANGED typist
    PROVE  /\ shipment[s].status \notin Settled
           /\ shipment'[s].status \in {"problem", "returned"} => s \in followUps'
<1>1. ASSUME NEW y \in Typists, NEW status, NEW track, SaveShipment(y, status, track) PROVE FALSE
  <2>1. typist[y].open /\ typist'[y] = NoShipmentForm
    BY <1>1 DEF SaveShipment, ShipInv
  <2>2. QED BY <2>1, NotedTypes
<1>2. PICK t \in Trackers : StoreTracking(t)
  BY <1>1 DEF ShipNext, Move, StartTracking, TellStatus, TellProblem, Told, RunFails, OpenShipment
<1>3. /\ shipment'[s] = RowAfter(s, tracker[t]) /\ shipment[s] \in ShipmentRows
      /\ tracker[t] \in {"problem", "returned"} =>
            {p \in Parcels : RowAfter(p, tracker[t]).status # shipment[p].status} \subseteq followUps'
  BY <1>2 DEF StoreTracking, ShipInv
<1>4. shipment[s].status \notin Settled /\ shipment'[s].status = tracker[t]
  BY <1>3 DEF RowAfter, Stores, ShipmentRows
<1>5. QED BY <1>3, <1>4

LEMMA ShipInvKeeps == ShipInv => DeliveryNotedOnce
<1> SUFFICES ASSUME ShipInv PROVE DeliveryNotedOnce
  OBVIOUS
<1>1. \A s \in Parcels : announced[s] \in Nat /\ putBack[s] \in Nat
  BY NotedTypes DEF ShipInv
<1>2. Arrived => package = [event |-> "delivered", back |-> FALSE]
  BY DEF ShipInv, Arrived
<1>3. QED BY <1>1, <1>2 DEF ShipInv, DeliveryNotedOnce

\* What SettledByReading says of a step.
SettledByForm ==
    \A s \in Parcels :
        shipment'[s].status # shipment[s].status /\ UNCHANGED typist =>
            /\ shipment[s].status \notin Settled
            /\ shipment'[s].status \in {"problem", "returned"} => s \in followUps'

\* A delivery is noted once and only of a package that arrived, and a reading changes no
\* settled shipment (record_reading).
THEOREM ReadingsStored == ShipSpec => ReadingsKept
<1>1. ShipInv /\ [ShipNext]_shipVars => [SettledByForm]_shipVars
  BY ReadingStep DEF SettledByForm
<1>2. QED BY <1>1, ShipInvInit, ShipInvStep, ShipInvKeeps, PTL
      DEF ShipSpec, ReadingsKept, SettledByReading, SettledByForm

----------------------------------------------------------------------------
\* Messages.  What makes MessagesInOrder inductive is who still has to keep a file: a task
\* that did not find the message stored, and only one of these unless two did not at once.

Attachments == {"none", "kind", "other"}
Writings == [sent : BOOLEAN, at : Hours, caption : BOOLEAN, file : Attachments]
LoggerRows == [step : {"idle", "fetched", "found", "keeping"}, of : Messages \cup {"none"},
               got : {"nothing", "file"}, note : Notes \cup {"none"}, new : BOOLEAN]
MessageRows == [stored : BOOLEAN, notes : SUBSET Notes, files : 0..2]
ErrandRows == [does : {"nothing", "text", "template", "save"}, of : Messages \cup {"none"},
               at : Hours]
PaperRows == [documents : 0..2, noted : 0..2]

\* What is in the log, or at a task, was written before.
WrittenFirst ==
    /\ \A m \in Messages : wrote[m].sent => wrote[m].at <= hour
    /\ \A m \in Messages : webhook[m] # "none" \/ message[m].stored => wrote[m].sent
    /\ \A h \in Loggers : logger[h].step # "idle" =>
          logger[h].of \in Messages /\ wrote[logger[h].of].sent
    /\ \A w \in Writers : errand[w].does = "save" => errand[w].of \in Messages

\* A task that has no file of a message that came with one has a note that says why.
NoteSaysWhy ==
    \A h \in Loggers :
        LET l == logger[h] IN
        /\ l.step = "idle" => ~l.new
        /\ l.step # "idle" /\ l.got = "nothing" /\ wrote[l.of].file # "none" =>
              l.note \in {"failed", "notKept"}
        /\ l.step = "found" /\ ~l.new => message[l.of].stored \/ l.of \in cut

\* Task h is about to keep the file of message m, or to note that it was not kept.
KeepsFile(h, m) ==
    logger[h].step = "keeping" /\ logger[h].of = m /\ logger[h].new /\ logger[h].got = "file"

FileIsKept ==
    \A m \in Messages :
        message[m].stored /\ wrote[m].file # "none" =>
            \/ message[m].files > 0
            \/ message[m].notes \cap {"failed", "notKept", "refused"} # {}
            \/ \E h \in Loggers : KeepsFile(h, m)
            \/ m \in cut

OneKeeper ==
    \A m \in Messages \ twice :
        /\ message[m].files <= 1
        /\ \A g, h \in Loggers :
              logger[g].of = m /\ logger[g].new /\ logger[h].of = m /\ logger[h].new => g = h
        /\ message[m].files = 1 =>
              message[m].stored /\ \A h \in Loggers : ~(logger[h].of = m /\ logger[h].new)

MsgInv ==
    MessagesTypeOK /\ WrittenFirst /\ NoteSaysWhy /\ FileIsKept /\ OneKeeper /\ FreelyInWindow /\ SavedIsNoted

LEMMA MsgTypes == ASSUME MsgInv
    PROVE /\ wrote \in [Messages -> Writings] /\ logger \in [Loggers -> LoggerRows]
          /\ message \in [Messages -> MessageRows] /\ errand \in [Writers -> ErrandRows]
          /\ papers \in [Messages -> PaperRows] /\ hour \in Nat /\ texted \in Nat
          /\ MaxHour \in Nat /\ ReplyWindow \in Nat
  BY MessagesAssumption
     DEF MsgInv, MessagesTypeOK, Writings, LoggerRows, MessageRows, ErrandRows, PaperRows, Attachments, Hours

LEMMA MsgInvInit == MessagesInit => MsgInv
  BY MessagesAssumption
     DEF MessagesInit, MsgInv, MessagesTypeOK, WrittenFirst, NoteSaysWhy, FileIsKept, OneKeeper,
         FreelyInWindow, SavedIsNoted, KeepsFile, Unwritten, NotLogged, NoHandling, NoErrand, Hours, Notes

\* The steps of the handling of messages leave what staff do alone.
LEMMA HandlingAlone ==
    ASSUME MsgInv, UNCHANGED <<hour, wrote, texted, errand, papers, undone>>
    PROVE  FreelyInWindow' /\ SavedIsNoted'
  BY DEF MsgInv, FreelyInWindow, SavedIsNoted, WindowOpen

LEMMA ClientWritesStep == ASSUME MsgInv, NEW m \in Messages, ClientWrites(m) PROVE MsgInv'
<1>1. PICK caption \in BOOLEAN, file \in Attachments :
         wrote' = [wrote EXCEPT ![m] = [sent |-> TRUE, at |-> hour, caption |-> caption, file |-> file]]
  BY DEF ClientWrites, Attachments
<1> DEFINE new == [sent |-> TRUE, at |-> hour, caption |-> caption, file |-> file]
<1>2. new \in Writings /\ new.sent /\ new.at = hour
  BY DEF MsgInv, MessagesTypeOK, Writings
<1>3. ~wrote[m].sent /\ UNCHANGED <<hour, webhook, logger, message, texted, errand, papers, cut, twice, undone>>
  BY DEF ClientWrites
<1> HIDE DEF new
<1>4. wrote' \in [Messages -> Writings] /\ wrote'[m] = new /\ \A k \in Messages \ {m} : wrote'[k] = wrote[k]
  BY <1>1, <1>2, MsgTypes DEF new
<1>5. MessagesTypeOK'
  BY <1>3, <1>4 DEF MsgInv, MessagesTypeOK, Writings, Attachments
<1>6. WrittenFirst' /\ NoteSaysWhy'
  <2>1. hour \in Nat /\ \A h \in Loggers : logger[h].step # "idle" => logger[h].of \in Messages \ {m}
    BY <1>3, MsgTypes DEF MsgInv, WrittenFirst
  <2>2. \A k \in Messages : wrote'[k].sent => wrote'[k].at <= hour
    BY <1>2, <1>4, <2>1 DEF MsgInv, WrittenFirst
  <2>3. WrittenFirst'
    BY <1>2, <1>3, <1>4, <2>1, <2>2 DEF MsgInv, WrittenFirst
  <2>4. NoteSaysWhy'
    BY <1>3, <1>4, <2>1 DEF MsgInv, NoteSaysWhy
  <2>5. QED BY <2>3, <2>4
<1>10. FileIsKept'
  <2>1. \A k \in Messages : message[k].stored => k # m
    BY <1>3 DEF MsgInv, WrittenFirst
  <2>2. QED BY <1>3, <1>4, <2>1 DEF MsgInv, FileIsKept, KeepsFile
<1>7. OneKeeper' /\ SavedIsNoted'
  BY <1>3 DEF MsgInv, OneKeeper, SavedIsNoted
<1>8. FreelyInWindow'
  BY <1>3, <1>4 DEF MsgInv, FreelyInWindow, WindowOpen
<1>9. QED BY <1>5, <1>6, <1>7, <1>8, <1>10 DEF MsgInv

LEMMA StoreMessageStep == ASSUME MsgInv, NEW m \in Messages, StoreMessage(m) PROVE MsgInv'
<1>1. /\ wrote[m].sent /\ webhook' = [webhook EXCEPT ![m] = "stored"]
      /\ UNCHANGED <<hour, wrote, logger, message, texted, errand, papers, cut, twice, undone>>
  BY DEF StoreMessage
<1>2. MessagesTypeOK'
  BY <1>1 DEF MsgInv, MessagesTypeOK
<1>3. WrittenFirst'
  <2>1. \A k \in Messages : webhook'[k] # "none" => k = m \/ webhook[k] # "none"
    BY <1>1 DEF MsgInv, MessagesTypeOK
  <2>2. QED BY <1>1, <2>1 DEF MsgInv, WrittenFirst
<1>4. NoteSaysWhy'
  BY <1>1 DEF MsgInv, NoteSaysWhy
<1>5. FileIsKept'
  BY <1>1 DEF MsgInv, FileIsKept, KeepsFile
<1>6. OneKeeper'
  BY <1>1 DEF MsgInv, OneKeeper
<1>7. QED BY <1>1, <1>2, <1>3, <1>4, <1>5, <1>6, HandlingAlone DEF MsgInv

LEMMA HandleMessageStep ==
    ASSUME MsgInv, NEW h \in Loggers, NEW m \in Messages, HandleMessage(h, m) PROVE MsgInv'
<1>1. PICK f \in Fetched(m) :
         logger' = [logger EXCEPT ![h] =
              [NoHandling EXCEPT !.step = "fetched", !.of = m, !.got = f[1],
                                 !.note = NoteFor(m, f[1], f[2])]]
  BY DEF HandleMessage
<1> DEFINE l == [NoHandling EXCEPT !.step = "fetched", !.of = m, !.got = f[1], !.note = NoteFor(m, f[1], f[2])]
<1>2. /\ f[1] \in {"nothing", "file"} /\ f[2] \in Notes \cup {"none"}
      /\ wrote[m].file # "none" /\ f[1] = "nothing" => f[2] \in {"failed", "notKept"}
  BY DEF Fetched, Notes
<1>3. /\ l \in LoggerRows /\ l.step = "fetched" /\ l.of = m /\ ~l.new /\ l.got = f[1]
      /\ l.got = "nothing" /\ wrote[m].file # "none" => l.note \in {"failed", "notKept"}
  BY <1>2 DEF LoggerRows, NoHandling, NoteFor, Notes
<1>4. /\ logger[h] = NoHandling /\ wrote[m].sent
      /\ UNCHANGED <<hour, wrote, webhook, message, texted, errand, papers, cut, twice, undone>>
  BY DEF HandleMessage, MsgInv, WrittenFirst
<1> HIDE DEF l
<1>5. logger' \in [Loggers -> LoggerRows] /\ logger'[h] = l /\ \A g \in Loggers \ {h} : logger'[g] = logger[g]
  BY <1>1, <1>3, MsgTypes DEF l
<1>6. MessagesTypeOK'
  BY <1>4, <1>5 DEF MsgInv, MessagesTypeOK, LoggerRows
<1>7. WrittenFirst' /\ NoteSaysWhy'
  BY <1>3, <1>4, <1>5 DEF MsgInv, WrittenFirst, NoteSaysWhy
<1>8. FileIsKept'
  <2>1. \A k \in Messages, g \in Loggers : KeepsFile(g, k) => KeepsFile(g, k)'
    BY <1>4, <1>5 DEF KeepsFile, NoHandling
  <2>2. QED BY <1>4, <2>1 DEF MsgInv, FileIsKept
<1>9. OneKeeper'
  BY <1>3, <1>4, <1>5 DEF MsgInv, OneKeeper
<1>10. QED BY <1>4, <1>6, <1>7, <1>8, <1>9, HandlingAlone DEF MsgInv

LEMMA LookForMessageStep == ASSUME MsgInv, NEW h \in Loggers, LookForMessage(h) PROVE MsgInv'
<1> DEFINE m == logger[h].of
           l == [logger[h] EXCEPT !.step = "found", !.new = ~message[m].stored]
<1>1. /\ logger[h].step = "fetched" /\ m \in Messages
      /\ UNCHANGED <<hour, wrote, webhook, message, texted, errand, papers, cut, undone>>
  BY DEF LookForMessage, MsgInv, WrittenFirst
<1>2. /\ logger' = [logger EXCEPT ![h] = l]
      /\ twice' = IF \/ message[m].stored \/ \A g \in Loggers : ~(logger[g].of = m /\ logger[g].new)
                  THEN twice ELSE twice \cup {m}
  BY MsgTypes DEF LookForMessage, LoggerRows
<1>3. message[m].stored \in BOOLEAN /\ logger[h] \in LoggerRows
  BY <1>1, MsgTypes DEF MessageRows
<1>4. /\ l \in LoggerRows /\ l.step = "found" /\ l.of = m /\ l.new = ~message[m].stored
      /\ l.got = logger[h].got /\ l.note = logger[h].note
  BY <1>3 DEF LoggerRows
<1> HIDE DEF l
<1>5. logger' \in [Loggers -> LoggerRows] /\ logger'[h] = l /\ \A g \in Loggers \ {h} : logger'[g] = logger[g]
  BY <1>2, <1>4, MsgTypes
<1>6. MessagesTypeOK'
  BY <1>1, <1>2, <1>5 DEF MsgInv, MessagesTypeOK, LoggerRows
<1>7. WrittenFirst' /\ NoteSaysWhy'
  <2>1. WrittenFirst /\ wrote[m].sent /\ WrittenFirst'
    BY <1>1, <1>4, <1>5 DEF MsgInv, WrittenFirst
  <2>2. ASSUME NEW g \in Loggers
        PROVE  /\ logger'[g].step = "idle" => ~logger'[g].new
               /\ logger'[g].step # "idle" /\ logger'[g].got = "nothing" /\ wrote[logger'[g].of].file # "none" =>
                     logger'[g].note \in {"failed", "notKept"}
               /\ logger'[g].step = "found" /\ ~logger'[g].new =>
                     message[logger'[g].of].stored \/ logger'[g].of \in cut
    <3>1. CASE g = h
      BY <1>1, <1>3, <1>4, <1>5, <3>1 DEF MsgInv, NoteSaysWhy
    <3>2. CASE g # h
      BY <1>5, <3>2 DEF MsgInv, NoteSaysWhy
    <3>3. QED BY <3>1, <3>2
  <2>3. NoteSaysWhy'
    BY <1>1, <2>2 DEF NoteSaysWhy
  <2>4. QED BY <2>1, <2>3
<1>8. FileIsKept'
  <2>1. \A k \in Messages, g \in Loggers : KeepsFile(g, k) => KeepsFile(g, k)'
    BY <1>1, <1>5 DEF KeepsFile
  <2>2. QED BY <1>1, <2>1 DEF MsgInv, FileIsKept
<1>9. OneKeeper'
  <2> SUFFICES ASSUME NEW k \in Messages, k \notin twice'
      PROVE /\ message[k].files <= 1
            /\ \A g, j \in Loggers :
                  logger'[g].of = k /\ logger'[g].new /\ logger'[j].of = k /\ logger'[j].new => g = j
            /\ message[k].files = 1 =>
                  message[k].stored /\ \A g \in Loggers : ~(logger'[g].of = k /\ logger'[g].new)
    BY <1>1 DEF OneKeeper
  <2>1. k \notin twice
    BY <1>2
  <2>2. CASE k # m
    BY <2>1, <2>2, <1>4, <1>5 DEF MsgInv, OneKeeper
  <2>3. CASE k = m /\ message[m].stored
    <3>1. /\ message[m].files <= 1
          /\ \A g, j \in Loggers :
                logger[g].of = m /\ logger[g].new /\ logger[j].of = m /\ logger[j].new => g = j
          /\ message[m].files = 1 => \A g \in Loggers : ~(logger[g].of = m /\ logger[g].new)
      BY <1>1, <2>1, <2>3 DEF MsgInv, OneKeeper
    <3>2. \A g \in Loggers : logger'[g].of = m /\ logger'[g].new => logger[g].of = m /\ logger[g].new
      BY <1>4, <1>5, <2>3
    <3>3. QED BY <2>3, <3>1, <3>2
  <2>4. CASE k = m /\ ~message[m].stored
    <3>1. \A g \in Loggers : ~(logger[g].of = m /\ logger[g].new)
      BY <2>4, <1>2
    <3>2. QED BY <2>1, <2>4, <3>1, <1>4, <1>5 DEF MsgInv, OneKeeper
  <2>5. QED BY <1>3, <2>2, <2>3, <2>4
<1>10. QED BY <1>1, <1>6, <1>7, <1>8, <1>9, HandlingAlone DEF MsgInv

LEMMA LogMessageStep == ASSUME MsgInv, NEW h \in Loggers, LogMessage(h) PROVE MsgInv'
<1> DEFINE m == logger[h].of
           l == [logger[h] EXCEPT !.step = "keeping"]
           notes == message[m].notes \cup ({logger[h].note} \ {"none"})
           logged == [message[m] EXCEPT !.stored = TRUE, !.notes = notes]
<1>1. /\ logger[h].step = "found" /\ m \in Messages /\ wrote[m].sent
      /\ UNCHANGED <<hour, wrote, webhook, texted, errand, papers, cut, twice, undone>>
  BY DEF LogMessage, MsgInv, WrittenFirst
<1>2. /\ logger' = [logger EXCEPT ![h] = l]
      /\ message' = [message EXCEPT ![m] = logged]
  BY <1>1, MsgTypes DEF LogMessage, LoggerRows, MessageRows
<1>3. logger[h] \in LoggerRows /\ message[m] \in MessageRows
  BY <1>1, MsgTypes
<1>4. /\ l \in LoggerRows /\ l.step = "keeping" /\ l.of = m /\ l.new = logger[h].new
      /\ l.got = logger[h].got /\ l.note = logger[h].note
  BY <1>3 DEF LoggerRows
<1>5. /\ logged \in MessageRows /\ logged.stored /\ logged.notes = notes /\ logged.files = message[m].files
  BY <1>3 DEF LoggerRows, MessageRows
<1>6. message[m].notes \subseteq notes /\ (logger[h].note # "none" => logger[h].note \in notes)
  OBVIOUS
<1> HIDE DEF l, logged, notes
<1>7. logger' \in [Loggers -> LoggerRows] /\ logger'[h] = l /\ \A g \in Loggers \ {h} : logger'[g] = logger[g]
  BY <1>2, <1>4, MsgTypes
<1>8. /\ message' \in [Messages -> MessageRows] /\ message'[m] = logged
      /\ \A k \in Messages \ {m} : message'[k] = message[k]
  BY <1>1, <1>2, <1>5, MsgTypes
<1>9. MessagesTypeOK'
  BY <1>1, <1>7, <1>8 DEF MsgInv, MessagesTypeOK, LoggerRows, MessageRows
<1>10. WrittenFirst' /\ NoteSaysWhy'
  BY <1>1, <1>4, <1>5, <1>7, <1>8 DEF MsgInv, WrittenFirst, NoteSaysWhy
<1>11. FileIsKept'
  <2>1. \A k \in Messages, g \in Loggers : KeepsFile(g, k) => KeepsFile(g, k)'
    BY <1>1, <1>7 DEF KeepsFile
  <2>2. ASSUME NEW k \in Messages, k = m, wrote[k].file # "none"
        PROVE  \/ logged.files > 0
               \/ logged.notes \cap {"failed", "notKept", "refused"} # {}
               \/ \E g \in Loggers : KeepsFile(g, k)'
               \/ k \in cut
    <3>1. CASE logger[h].got = "nothing"
      <4>1. logger[h].note \in {"failed", "notKept"}
        BY <1>1, <2>2, <3>1 DEF MsgInv, NoteSaysWhy
      <4>2. QED BY <1>5, <1>6, <4>1
    <3>2. CASE logger[h].got = "file" /\ logger[h].new
      BY <1>4, <1>7, <2>2, <3>2 DEF KeepsFile
    <3>3. CASE ~logger[h].new
      <4>1. message[k].stored \/ k \in cut
        BY <1>1, <2>2, <3>3 DEF MsgInv, NoteSaysWhy
      <4>2. \/ message[k].files > 0
            \/ message[k].notes \cap {"failed", "notKept", "refused"} # {}
            \/ \E g \in Loggers : KeepsFile(g, k)
            \/ k \in cut
        BY <2>2, <4>1 DEF MsgInv, FileIsKept
      <4>3. QED BY <1>5, <1>6, <2>1, <2>2, <4>2
    <3>4. logger[h].got \in {"nothing", "file"} /\ logger[h].new \in BOOLEAN
      BY <1>3 DEF LoggerRows
    <3>5. QED BY <3>1, <3>2, <3>3, <3>4
  <2>3. QED BY <1>1, <1>8, <2>1, <2>2 DEF MsgInv, FileIsKept
<1>12. OneKeeper'
  BY <1>1, <1>4, <1>5, <1>7, <1>8 DEF MsgInv, OneKeeper
<1>13. QED BY <1>1, <1>9, <1>10, <1>11, <1>12, HandlingAlone DEF MsgInv

LEMMA KeepAttachmentStep == ASSUME MsgInv, NEW h \in Loggers, KeepAttachment(h) PROVE MsgInv'
<1> DEFINE m == logger[h].of
           keeps == logger[h].new /\ logger[h].got = "file" /\ message[m].stored
           newRow == message'[m]
<1>1. /\ logger[h].step = "keeping" /\ m \in Messages /\ wrote[m].sent
      /\ UNCHANGED <<hour, wrote, texted, errand, papers, cut, twice, undone>>
      /\ logger' = [logger EXCEPT ![h] = NoHandling]
      /\ webhook' = [webhook EXCEPT ![m] = "processed"]
  BY DEF KeepAttachment, MsgInv, WrittenFirst
<1>2. message[m] \in MessageRows /\ logger[h] \in LoggerRows /\ NoHandling \in LoggerRows
  BY <1>1, MsgTypes DEF LoggerRows, NoHandling
<1>3. /\ message' \in [Messages -> MessageRows] /\ \A k \in Messages \ {m} : message'[k] = message[k]
      /\ newRow.stored = message[m].stored
      /\ ~keeps => newRow = message[m]
      /\ keeps => \/ newRow.files > 0 /\ newRow.files <= message[m].files + 1 /\ newRow.notes = message[m].notes
                  \/ newRow.files = message[m].files /\ newRow.notes = message[m].notes \cup {"refused"}
  <2>1. CASE ~keeps
    BY <1>1, <2>1, MsgTypes DEF KeepAttachment
  <2>2. CASE keeps /\ message' = [message EXCEPT ![m].files = IF @ = 2 THEN 2 ELSE @ + 1]
    <3> DEFINE more == IF message[m].files = 2 THEN 2 ELSE message[m].files + 1
    <3>1. message[m].files \in 0..2
      BY <1>2 DEF MessageRows
    <3>2. more \in 0..2 /\ more > 0 /\ more <= message[m].files + 1
      BY <3>1
    <3>3. message' = [message EXCEPT ![m] = [message[m] EXCEPT !.files = more]]
      BY <2>2, MsgTypes
    <3> HIDE DEF more
    <3>4. [message[m] EXCEPT !.files = more] \in MessageRows
      BY <1>2, <3>2 DEF MessageRows
    <3>5. message'[m] = [message[m] EXCEPT !.files = more]
      BY <1>1, <3>3, MsgTypes
    <3>6. newRow.files = more /\ newRow.stored = message[m].stored /\ newRow.notes = message[m].notes
      BY <1>2, <3>5 DEF MessageRows
    <3>7. QED BY <1>1, <2>2, <3>2, <3>3, <3>4, <3>6, MsgTypes
  <2>3. CASE keeps /\ message' = [message EXCEPT ![m].notes = @ \cup {"refused"}]
    <3>1. message' = [message EXCEPT ![m] = [message[m] EXCEPT !.notes = message[m].notes \cup {"refused"}]]
      BY <2>3, MsgTypes
    <3>2. [message[m] EXCEPT !.notes = message[m].notes \cup {"refused"}] \in MessageRows
      BY <1>2 DEF MessageRows, Notes
    <3>3. message'[m] = [message[m] EXCEPT !.notes = message[m].notes \cup {"refused"}]
      BY <1>1, <3>1, MsgTypes
    <3>4. /\ newRow.files = message[m].files /\ newRow.stored = message[m].stored
          /\ newRow.notes = message[m].notes \cup {"refused"}
      BY <1>2, <3>3 DEF MessageRows
    <3>5. message' \in [Messages -> MessageRows] /\ \A k \in Messages \ {m} : message'[k] = message[k]
      BY <1>1, <3>1, <3>2, MsgTypes
    <3>6. QED BY <2>3, <3>4, <3>5
  <2>4. QED BY <2>1, <2>2, <2>3 DEF KeepAttachment
<1>4. /\ logger' \in [Loggers -> LoggerRows] /\ logger'[h] = NoHandling
      /\ \A g \in Loggers \ {h} : logger'[g] = logger[g]
  BY <1>1, <1>2, MsgTypes
<1> HIDE DEF keeps, newRow
<1>5. MessagesTypeOK'
  BY <1>1, <1>3, <1>4 DEF MsgInv, MessagesTypeOK, LoggerRows, MessageRows
<1>6. WrittenFirst' /\ NoteSaysWhy'
  <2>1. \A k \in Messages : message'[k].stored = message[k].stored
    BY <1>3 DEF newRow
  <2>2. QED BY <1>1, <1>4, <2>1 DEF MsgInv, WrittenFirst, NoteSaysWhy, NoHandling
<1>7. FileIsKept'
  <2>1. \A k \in Messages : KeepsFile(h, k) => k = m /\ (message[m].stored => keeps)
    BY DEF KeepsFile, keeps
  <2>2. \A k \in Messages, g \in Loggers \ {h} : KeepsFile(g, k) => KeepsFile(g, k)'
    BY <1>4 DEF KeepsFile
  <2>3. \A k \in Messages \ {m} :
           message'[k] = message[k] /\ \A g \in Loggers : KeepsFile(g, k) => KeepsFile(g, k)'
    BY <1>3, <2>1, <2>2
  <2>4. message'[m] = newRow /\ newRow.stored = message[m].stored /\ newRow \in MessageRows /\ message[m].files \in 0..2
    BY <1>1, <1>2, <1>3 DEF newRow, MessageRows
  <2>5. CASE keeps
    <3>1. newRow.files > 0 \/ "refused" \in newRow.notes
      BY <1>3, <2>5
    <3>2. QED BY <1>1, <2>3, <2>4, <3>1 DEF MsgInv, FileIsKept
  <2>6. CASE ~keeps
    <3>1. newRow = message[m]
      BY <1>3, <2>6
    <3>2. QED BY <1>1, <2>1, <2>2, <2>3, <2>4, <2>6, <3>1 DEF MsgInv, FileIsKept
  <2>7. QED BY <2>5, <2>6
<1>8. OneKeeper'
  <2> SUFFICES ASSUME NEW k \in Messages \ twice
      PROVE /\ message'[k].files <= 1
            /\ \A g, j \in Loggers :
                  logger'[g].of = k /\ logger'[g].new /\ logger'[j].of = k /\ logger'[j].new => g = j
            /\ message'[k].files = 1 =>
                  message'[k].stored /\ \A g \in Loggers : ~(logger'[g].of = k /\ logger'[g].new)
    BY <1>1 DEF OneKeeper
  <2>1. \A g \in Loggers : logger'[g].new => g # h /\ logger'[g] = logger[g]
    BY <1>4 DEF NoHandling
  <2>2. CASE k # m \/ ~keeps
    BY <1>3, <2>1, <2>2 DEF MsgInv, OneKeeper, newRow
  <2>3. CASE k = m /\ keeps
    <3>1. /\ logger[h].of = m /\ logger[h].new /\ message[m].stored
          /\ \A g \in Loggers : logger[g].of = m /\ logger[g].new => g = h
      BY <2>3 DEF keeps, MsgInv, OneKeeper
    <3>2. message[m].files \in 0..2 /\ message[m].files <= 1 /\ message[m].files # 1
      BY <1>2, <2>3, <3>1 DEF MsgInv, OneKeeper, MessageRows
    <3>3. newRow.files \in 0..2 /\ newRow.files <= 1 /\ newRow.stored
      <4>1. newRow \in MessageRows
        BY <1>1, <1>3 DEF newRow
      <4>2. QED BY <1>3, <2>3, <3>1, <3>2, <4>1 DEF MessageRows
    <3>4. QED BY <2>1, <2>3, <3>1, <3>3 DEF newRow
  <2>4. QED BY <2>2, <2>3
<1>9. QED BY <1>1, <1>5, <1>6, <1>7, <1>8, HandlingAlone DEF MsgInv

LEMMA BreakHandlingStep == ASSUME MsgInv, NEW h \in Loggers, BreakHandling(h) PROVE MsgInv'
<1> DEFINE m == logger[h].of
<1>1. /\ logger' = [logger EXCEPT ![h] = NoHandling]
      /\ cut' = IF logger[h].step = "keeping" THEN cut \cup {m} ELSE cut
      /\ webhook' \in {webhook, [webhook EXCEPT ![m] = "processed"]}
      /\ webhook' # webhook => logger[h].step = "keeping"
      /\ UNCHANGED <<hour, wrote, message, texted, errand, papers, twice, undone>>
  BY DEF BreakHandling
<1>2. /\ NoHandling \in LoggerRows
      /\ logger[h].step = "keeping" => m \in Messages /\ wrote[m].sent
  BY DEF LoggerRows, NoHandling, MsgInv, WrittenFirst
<1>3. /\ logger' \in [Loggers -> LoggerRows] /\ logger'[h] = NoHandling
      /\ \A g \in Loggers \ {h} : logger'[g] = logger[g]
  BY <1>1, <1>2, MsgTypes
<1>4. cut \subseteq cut' /\ cut' \subseteq Messages
  BY <1>1, <1>2 DEF MsgInv, MessagesTypeOK
<1>5. /\ webhook' \in [Messages -> {"none", "stored", "processed"}]
      /\ \A k \in Messages : webhook'[k] # "none" => wrote[k].sent
  BY <1>1, <1>2 DEF MsgInv, MessagesTypeOK, WrittenFirst
<1>6. MessagesTypeOK'
  BY <1>1, <1>3, <1>4, <1>5 DEF MsgInv, MessagesTypeOK, LoggerRows
<1>7. WrittenFirst' /\ NoteSaysWhy'
  BY <1>1, <1>3, <1>4, <1>5 DEF MsgInv, WrittenFirst, NoteSaysWhy, NoHandling
<1>8. FileIsKept'
  <2>1. \A k \in Messages, g \in Loggers : KeepsFile(g, k) => KeepsFile(g, k)' \/ k \in cut'
    BY <1>1, <1>3 DEF KeepsFile
  <2>2. QED BY <1>1, <1>4, <2>1 DEF MsgInv, FileIsKept
<1>9. OneKeeper'
  BY <1>1, <1>3 DEF MsgInv, OneKeeper, NoHandling
<1>10. QED BY <1>1, <1>6, <1>7, <1>8, <1>9, HandlingAlone DEF MsgInv

LEMMA DeleteMessageStep == ASSUME MsgInv, NEW m \in Messages, DeleteMessage(m) PROVE MsgInv'
<1>1. /\ message' = [message EXCEPT ![m] = NotLogged]
      /\ undone' = IF \E w \in Writers : errand[w].of = m THEN undone \cup {m} ELSE undone
      /\ cut' = IF \E h \in Loggers : logger[h].of = m /\ logger[h].step = "found"
                THEN cut \cup {m} ELSE cut
      /\ UNCHANGED <<hour, wrote, webhook, logger, texted, errand, papers, twice>>
  BY DEF DeleteMessage
<1>2. NotLogged \in MessageRows
  BY DEF NotLogged, MessageRows
<1>3. /\ message' \in [Messages -> MessageRows] /\ message'[m] = NotLogged
      /\ \A k \in Messages \ {m} : message'[k] = message[k]
  BY <1>1, <1>2, MsgTypes
<1>4. cut \subseteq cut' /\ undone \subseteq undone' /\ cut' \subseteq Messages /\ undone' \subseteq Messages
  BY <1>1 DEF MsgInv, MessagesTypeOK
<1>5. MessagesTypeOK'
  BY <1>1, <1>3, <1>4 DEF MsgInv, MessagesTypeOK, MessageRows
<1>6. WrittenFirst'
  BY <1>1, <1>3 DEF MsgInv, WrittenFirst, NotLogged
<1>7. NoteSaysWhy'
  <2>1. \A h \in Loggers : logger[h].step = "found" => logger[h].of \in Messages
    BY DEF MsgInv, WrittenFirst
  <2>2. QED BY <1>1, <1>3, <1>4, <2>1 DEF MsgInv, NoteSaysWhy
<1>8. FileIsKept'
  BY <1>1, <1>3, <1>4 DEF MsgInv, FileIsKept, KeepsFile, NotLogged
<1>9. OneKeeper'
  BY <1>1, <1>3 DEF MsgInv, OneKeeper, NotLogged
<1>10. FreelyInWindow' /\ SavedIsNoted'
  BY <1>1, <1>4 DEF MsgInv, FreelyInWindow, WindowOpen, SavedIsNoted
<1>11. QED BY <1>5, <1>6, <1>7, <1>8, <1>9, <1>10 DEF MsgInv

\* What staff do leaves the handling of messages alone.
LEMMA StaffAlone ==
    ASSUME MsgInv, UNCHANGED <<wrote, webhook, logger, message, cut, twice, undone>>,
           hour' = hour \/ hour' = hour + 1,
           \A w \in Writers : errand'[w].does = "save" => errand'[w].of \in Messages
    PROVE  WrittenFirst' /\ NoteSaysWhy' /\ FileIsKept' /\ OneKeeper'
<1>1. \A m \in Messages : wrote[m].at \in Nat
  BY MsgTypes DEF Writings, Hours
<1>2. WrittenFirst'
  BY <1>1, MsgTypes DEF MsgInv, WrittenFirst
<1>3. NoteSaysWhy' /\ FileIsKept' /\ OneKeeper'
  BY DEF MsgInv, NoteSaysWhy, FileIsKept, KeepsFile, OneKeeper
<1>4. QED BY <1>2, <1>3

LEMMA HourStep == ASSUME MsgInv, HourGoesBy PROVE MsgInv'
<1>1. /\ hour' = hour + 1 /\ hour < MaxHour
      /\ UNCHANGED <<wrote, webhook, logger, message, texted, errand, papers, cut, twice, undone>>
  BY DEF HourGoesBy
<1>2. WrittenFirst' /\ NoteSaysWhy' /\ FileIsKept' /\ OneKeeper'
  <2>1. \A w \in Writers : errand'[w].does = "save" => errand'[w].of \in Messages
    BY <1>1 DEF MsgInv, WrittenFirst
  <2>2. QED BY <1>1, <2>1, StaffAlone
<1>3. MessagesTypeOK'
  BY <1>1, MsgTypes DEF MsgInv, MessagesTypeOK, Hours
<1>4. FreelyInWindow' /\ SavedIsNoted'
  BY <1>1 DEF MsgInv, FreelyInWindow, WindowOpen, SavedIsNoted
<1>5. QED BY <1>2, <1>3, <1>4 DEF MsgInv

\* A request of staff goes on, with an errand of its own.
LEMMA ErrandMoves ==
    ASSUME MsgInv, NEW w \in Writers, NEW e \in ErrandRows, errand' = [errand EXCEPT ![w] = e],
           e.does = "save" => e.of \in Messages, e.does = "text" => WindowOpen(e.at),
           UNCHANGED <<hour, wrote, webhook, logger, message, cut, twice, undone>>,
           texted' \in Hours, papers' \in [Messages -> PaperRows], SavedIsNoted'
    PROVE  MsgInv'
<1>1. /\ errand' \in [Writers -> ErrandRows] /\ errand'[w] = e
      /\ \A v \in Writers \ {w} : errand'[v] = errand[v]
  BY MsgTypes
<1>2. WrittenFirst' /\ NoteSaysWhy' /\ FileIsKept' /\ OneKeeper'
  <2>1. \A v \in Writers : errand'[v].does = "save" => errand'[v].of \in Messages
    BY <1>1 DEF MsgInv, WrittenFirst
  <2>2. QED BY <2>1, StaffAlone
<1>3. MessagesTypeOK'
  BY <1>1 DEF MsgInv, MessagesTypeOK, ErrandRows, PaperRows, Hours
<1>4. FreelyInWindow'
  BY <1>1 DEF MsgInv, FreelyInWindow, WindowOpen
<1>5. QED BY <1>2, <1>3, <1>4 DEF MsgInv

LEMMA BeginAnswerStep == ASSUME MsgInv, NEW w \in Writers, BeginAnswer(w) PROVE MsgInv'
<1>1. PICK how \in {"text", "template"} :
         /\ how = "text" => CanTextFreely
         /\ errand' = [errand EXCEPT ![w] = [NoErrand EXCEPT !.does = how, !.at = hour]]
  BY DEF BeginAnswer
<1> DEFINE e == [NoErrand EXCEPT !.does = how, !.at = hour]
<1>2. e \in ErrandRows /\ e.does = how /\ e.at = hour
  BY DEF ErrandRows, NoErrand, MsgInv, MessagesTypeOK
<1>3. CanTextFreely => WindowOpen(hour)
  <2>1. \A m \in Messages : message[m].stored => wrote[m].sent /\ wrote[m].at <= hour
    BY DEF MsgInv, WrittenFirst
  <2>2. QED BY <2>1 DEF CanTextFreely, LatestText, WindowOpen
<1> HIDE DEF e
<1>4. /\ UNCHANGED <<hour, wrote, webhook, logger, message, texted, papers, cut, twice, undone>>
      /\ errand' = [errand EXCEPT ![w] = e]
  BY <1>1 DEF BeginAnswer, e
<1>5. SavedIsNoted' /\ texted' \in Hours /\ papers' \in [Messages -> PaperRows]
  BY <1>4, MsgTypes DEF MsgInv, SavedIsNoted, MessagesTypeOK
<1>6. QED BY <1>1, <1>2, <1>3, <1>4, <1>5, ErrandMoves

LEMMA NoErrandRow == NoErrand \in ErrandRows /\ NoErrand.does = "nothing"
  BY MessagesAssumption DEF ErrandRows, NoErrand, Hours

LEMMA SendAnswerStep == ASSUME MsgInv, NEW w \in Writers, SendAnswer(w) PROVE MsgInv'
<1>1. /\ UNCHANGED <<hour, wrote, webhook, logger, message, papers, cut, twice, undone>>
      /\ errand' = [errand EXCEPT ![w] = NoErrand] /\ (texted' = hour \/ texted' = texted)
  BY DEF SendAnswer
<1>2. SavedIsNoted' /\ texted' \in Hours /\ papers' \in [Messages -> PaperRows]
  BY <1>1, MsgTypes DEF MsgInv, SavedIsNoted, MessagesTypeOK
<1>3. QED BY <1>1, <1>2, NoErrandRow, ErrandMoves

LEMMA BeginSaveStep ==
    ASSUME MsgInv, NEW w \in Writers, NEW m \in Messages, BeginSave(w, m) PROVE MsgInv'
<1> DEFINE e == [NoErrand EXCEPT !.does = "save", !.of = m]
<1>1. e \in ErrandRows /\ e.does = "save" /\ e.of = m
  <2>1. 0 \in Hours
    BY MessagesAssumption DEF Hours
  <2>2. QED BY <2>1 DEF ErrandRows, NoErrand
<1>2. /\ UNCHANGED <<hour, wrote, webhook, logger, message, texted, papers, cut, twice, undone>>
      /\ errand' = [errand EXCEPT ![w] = e]
  BY DEF BeginSave
<1> HIDE DEF e
<1>3. SavedIsNoted' /\ texted' \in Hours /\ papers' \in [Messages -> PaperRows]
  BY <1>2, MsgTypes DEF MsgInv, SavedIsNoted, MessagesTypeOK
<1>4. QED BY <1>1, <1>2, <1>3, ErrandMoves

LEMMA SaveToMatterStep == ASSUME MsgInv, NEW w \in Writers, SaveToMatter(w) PROVE MsgInv'
<1> DEFINE m == errand[w].of
           more == papers[m].documents + 1
           noted == IF m \in undone THEN papers[m].noted ELSE papers[m].noted + 1
<1>1. /\ m \in Messages /\ papers[m].documents < 2 /\ papers[m] \in PaperRows
      /\ UNCHANGED <<hour, wrote, webhook, logger, message, texted, cut, twice, undone>>
      /\ errand' = [errand EXCEPT ![w] = NoErrand]
  BY MsgTypes DEF SaveToMatter, MsgInv, WrittenFirst
<1>2. papers' = [papers EXCEPT ![m] = [papers[m] EXCEPT !.documents = more, !.noted = noted]]
  BY <1>1, MsgTypes DEF SaveToMatter, PaperRows
<1>3. more \in 0..2 /\ noted \in 0..2 /\ (more = noted \/ m \in undone)
  <2>1. papers[m].documents \in 0..2 /\ papers[m].noted \in 0..2
    BY <1>1 DEF PaperRows
  <2>2. papers[m].documents = papers[m].noted \/ m \in undone
    BY <1>1 DEF MsgInv, SavedIsNoted
  <2>3. QED BY <1>1, <2>1, <2>2
<1> DEFINE p == [papers[m] EXCEPT !.documents = more, !.noted = noted]
<1> HIDE DEF more, noted
<1>7. p \in PaperRows /\ p.documents = more /\ p.noted = noted
  BY <1>1, <1>3 DEF PaperRows
<1>8. papers' = [papers EXCEPT ![m] = p]
  BY <1>2
<1> HIDE DEF p
<1>4. /\ papers' \in [Messages -> PaperRows] /\ papers'[m] = p
      /\ \A k \in Messages \ {m} : papers'[k] = papers[k]
  BY <1>1, <1>7, <1>8, MsgTypes
<1>5. SavedIsNoted' /\ texted' \in Hours
  BY <1>1, <1>3, <1>4, <1>7 DEF MsgInv, MessagesTypeOK, SavedIsNoted
<1>6. QED BY <1>1, <1>4, <1>5, NoErrandRow, ErrandMoves

LEMMA MsgInvStep == MsgInv /\ [MessagesNext]_messageVars => MsgInv'
<1> SUFFICES ASSUME MsgInv, [MessagesNext]_messageVars PROVE MsgInv'
  OBVIOUS
<1>1. ASSUME NEW tasks \in SUBSET Loggers, ComesIn(tasks) PROVE MsgInv'
  BY <1>1, ClientWritesStep, StoreMessageStep, DeleteMessageStep, HandleMessageStep, LookForMessageStep,
     LogMessageStep, KeepAttachmentStep, BreakHandlingStep DEF ComesIn
<1>2. CASE FilesNext
  BY <1>1, <1>2, SaveToMatterStep, BeginSaveStep DEF FilesNext
<1>3. CASE AnswersNext
  <2> DEFINE alone == {h \in Loggers : \A g \in Loggers \ {h} : logger[g] = NoHandling}
  <2>1. alone \in SUBSET Loggers
    OBVIOUS
  <2>2. ComesIn(alone) \/ HourGoesBy \/ \E w \in Writers : BeginAnswer(w) \/ SendAnswer(w)
    BY <1>3 DEF AnswersNext
  <2> HIDE DEF alone
  <2>3. QED BY <1>1, <2>1, <2>2, HourStep, BeginAnswerStep, SendAnswerStep
<1>4. CASE UNCHANGED messageVars
  BY <1>4 DEF messageVars, MsgInv, MessagesTypeOK, WrittenFirst, NoteSaysWhy, FileIsKept, KeepsFile, OneKeeper,
              FreelyInWindow, WindowOpen, SavedIsNoted
<1>5. QED BY <1>2, <1>3, <1>4 DEF MessagesNext

LEMMA MsgInvKeeps == MsgInv => MessagesInOrder
<1> SUFFICES ASSUME MsgInv PROVE MessagesInOrder
  OBVIOUS
<1>1. FileOrNote
  BY DEF MsgInv, FileIsKept, KeepsFile, FileOrNote
<1>2. OneFileEach
  BY DEF MsgInv, OneKeeper, OneFileEach
<1>3. QED BY <1>1, <1>2 DEF MsgInv, MessagesInOrder

\* What clients send is logged with its file or a note, once unless two tasks handled it at
\* once; staff write freely only while WhatsApp would deliver it; and what is saved to a
\* matter is noted there (store_one, keep_attachments, can_text_freely, save_to_matter).
THEOREM MessagesStay == MessagesSpec => []MessagesInOrder
<1>1. QED BY MsgInvInit, MsgInvStep, MsgInvKeeps, PTL DEF MessagesSpec

----------------------------------------------------------------------------
\* Webhooks.  What makes HooksInOrder inductive: work that nothing crossed is alone, so that
\* the row is as it read it, and what it has removed or made so far is all that changed.

SecretRows == [source : {"none", "crm", "pasted", "credential", "provider"}, n : Nat]
HookTokens == 0..MaxSetups
HookNumbers == 1..MaxHooks
HookSets == SUBSET HookNumbers
HookWorks ==
    [op : {"none", "setup", "config", "disconnect", "renew"},
     step : {"idle", "remove", "make", "renew", "save"},
     read : HookRows, left : HookSets, made : HookSets]
HookEntries == [address : HookTokens, alive : BOOLEAN, secret : SecretRows]

HookTypes == HooksTypeOK /\ hooks \in Seq(HookEntries)

\* Who rests has no work and is crossed by nobody; who works and is not crossed is alone.
WorkApart ==
    \A r \in Admins :
        /\ Idles(r) => doing[r] = NoWork /\ r \notin crossed
        /\ ~Idles(r) /\ r \notin crossed => \A q \in Admins \ {r} : Idles(q)

\* The webhooks that work d knows of are there or were, and those it made are for the
\* address, and sign with the secret, that it read.
KnowsWell(d) ==
    /\ d.read.known \cup d.left \cup d.made \subseteq HookIds
    /\ d.step = "remove" => d.op \in {"setup", "disconnect"}
    /\ d.op \notin {"setup", "renew"} \/ d.step = "remove" => d.made = {}
    /\ d.op = "setup" =>
          /\ d.step = "make" /\ taker # Graph => d.made = {}
          /\ d.step = "save" =>
                /\ d.read.status = "active"
                /\ \E h \in d.made : taker # Graph => d.made = {h}
          /\ \A h \in d.made : /\ hooks[h].address = d.read.token
                               /\ taker # Stripe => hooks[h].secret = d.read.secret
    /\ d.op = "renew" =>
          /\ taker = Graph
          /\ \A h \in d.made : hooks[h].address = d.read.url /\ hooks[h].secret = d.read.secret
    /\ d.op = "disconnect" /\ d.step = "save" => d.left = {}

WorkKnows == hookRow.known \subseteq HookIds /\ \A r \in Admins : KnowsWell(doing[r])

\* What work d has done since it read the row is all that was done.
AsItWasRead(d) ==
    /\ hookRow.status = d.read.status /\ hookRow.token = d.read.token
    /\ hookRow.secret = d.read.secret /\ hookRow.url = d.read.url
    /\ d.op = "config" => hookRow.known = d.read.known
    /\ d.op = "renew" => d.read.known \subseteq hookRow.known /\ Alive \cap hookRow.known \subseteq d.read.known
    /\ d.op = "setup" /\ d.step = "remove" => Alive \cap hookRow.known \subseteq d.left
    /\ d.op = "setup" /\ d.step # "remove" => Alive \cap hookRow.known = {}
    /\ d.op = "setup" /\ taker = Twilio /\ d.made # {} => Alive \subseteq d.made
    /\ d.op = "disconnect" /\ taker # Twilio => Alive \subseteq strays \cup d.left

UncrossedAsRead == \A r \in Admins : ~Idles(r) /\ r \notin crossed => AsItWasRead(doing[r])

LedWell ==
    led => /\ hookRow.status = "active"
           /\ \A r \in Admins : doing[r].op # "setup"
           /\ taker = Graph => hookRow.url = hookRow.token

HookInv ==
    /\ HookTypes /\ WorkApart /\ WorkKnows /\ UncrossedAsRead /\ LedWell
    /\ HooksKnown /\ EventsComeIn

LEMMA HookShapes == ASSUME HookInv
    PROVE /\ taker \in Takers /\ hookRow \in HookRows /\ tokens \in HookTokens
          /\ doing \in [Admins -> HookWorks] /\ hooks \in Seq(HookEntries) /\ Len(hooks) <= MaxHooks
          /\ Len(hooks) \in Nat /\ crossed \subseteq Admins /\ strays \subseteq HookNumbers /\ led \in BOOLEAN
          /\ MaxHooks \in Nat /\ MaxSetups \in Nat
          /\ Alive \subseteq HookIds /\ HookIds \subseteq HookNumbers
          /\ \A r \in Admins : doing[r] \in HookWorks /\ doing[r].read \in HookRows
          /\ \A h \in HookIds : hooks[h] \in HookEntries
<1>1. hooks \in Seq(HookEntries) /\ Len(hooks) <= MaxHooks /\ Len(hooks) \in Nat /\ MaxHooks \in Nat /\ MaxSetups \in Nat
  BY WebhookSetupAssumption DEF HookInv, HookTypes, HooksTypeOK
<1>2. doing \in [Admins -> HookWorks]
  BY DEF HookInv, HookTypes, HooksTypeOK, HookWorks, HookSets, HookNumbers
<1>3. Alive \subseteq HookIds /\ HookIds \subseteq HookNumbers /\ \A h \in HookIds : hooks[h] \in HookEntries
  BY <1>1 DEF Alive, HookIds, HookNumbers
<1>4. \A r \in Admins : doing[r] \in HookWorks /\ doing[r].read \in HookRows
  BY <1>2 DEF HookWorks
<1>5. QED BY <1>1, <1>2, <1>3, <1>4 DEF HookInv, HookTypes, HooksTypeOK, HookTokens, HookNumbers

LEMMA HookTypesFrom ==
    ASSUME taker \in Takers, hookRow \in HookRows, tokens \in HookTokens,
           doing \in [Admins -> HookWorks], hooks \in Seq(HookEntries), Len(hooks) <= MaxHooks,
           crossed \subseteq Admins, strays \subseteq HookNumbers, led \in BOOLEAN
    PROVE  HookTypes
  BY DEF HookTypes, HooksTypeOK, HookWorks, HookSets, HookNumbers, HookTokens

LEMMA HookTypesNext ==
    ASSUME taker' \in Takers, hookRow' \in HookRows, tokens' \in HookTokens,
           doing' \in [Admins -> HookWorks], hooks' \in Seq(HookEntries), Len(hooks') <= MaxHooks,
           crossed' \subseteq Admins, strays' \subseteq HookNumbers, led' \in BOOLEAN
    PROVE  HookTypes'
  BY DEF HookTypes, HooksTypeOK, HookWorks, HookSets, HookNumbers, HookTokens

\* Webhooks stay where they were made, and with the secret they sign with.
HooksStay ==
    /\ hooks' \in Seq(HookEntries) /\ Len(hooks') <= MaxHooks /\ HookIds \subseteq HookIds'
    /\ \A h \in HookIds : hooks'[h].address = hooks[h].address /\ hooks'[h].secret = hooks[h].secret

LEMMA HookUnchanged == ASSUME HookInv, UNCHANGED hooks PROVE HooksStay /\ Alive' = Alive
  BY HookShapes DEF HooksStay, Alive, HookIds

Dies(h) == hooks' = [hooks EXCEPT ![h].alive = FALSE]

LEMMA HookDies ==
    ASSUME HookInv, NEW h \in HookIds, Dies(h)
    PROVE  HooksStay /\ Alive' = Alive \ {h} /\ HookIds' = HookIds
<1> DEFINE dead == [hooks[h] EXCEPT !.alive = FALSE]
<1>1. /\ hooks \in Seq(HookEntries) /\ Len(hooks) <= MaxHooks /\ hooks[h] \in HookEntries
      /\ h \in 1..Len(hooks)
  BY HookShapes DEF HookIds
<1>2. /\ dead \in HookEntries /\ ~dead.alive /\ dead.address = hooks[h].address
      /\ dead.secret = hooks[h].secret
  BY <1>1 DEF HookEntries
<1>3. hooks' = [hooks EXCEPT ![h] = dead]
  BY <1>1 DEF Dies
<1> HIDE DEF dead
<1>4. /\ hooks' \in Seq(HookEntries) /\ Len(hooks') = Len(hooks) /\ hooks'[h] = dead
      /\ \A k \in 1..Len(hooks) : k # h => hooks'[k] = hooks[k]
  BY <1>1, <1>2, <1>3, ExceptSeq
<1>5. QED BY <1>1, <1>2, <1>4 DEF HooksStay, Alive, HookIds

LEMMA HookComes ==
    ASSUME HookInv, NEW t \in HookTokens, NEW s \in SecretRows, Makes(t, s)
    PROVE  /\ HooksStay /\ Len(hooks') = Len(hooks) + 1 /\ Len(hooks') \notin HookIds
           /\ HookIds' = HookIds \cup {Len(hooks')}
           /\ hooks'[Len(hooks')].address = t
           /\ taker # Stripe => hooks'[Len(hooks')].secret = s
           /\ taker # Twilio => Alive' = Alive \cup {Len(hooks')}
           /\ taker = Twilio => Alive' = {Len(hooks')}
<1> DEFINE secret == IF taker = Stripe THEN Secret("provider", Len(hooks) + 1) ELSE s
           new == [address |-> t, alive |-> TRUE, secret |-> secret]
           old == [h \in HookIds |-> [hooks[h] EXCEPT !.alive = @ /\ taker # Twilio]]
           n == Len(hooks)
<1>1. /\ n \in Nat /\ n < MaxHooks /\ MaxHooks \in Nat /\ hooks' = Append(old, new) /\ HookIds = 1..n
      /\ \A h \in HookIds : hooks[h] \in HookEntries
  BY HookShapes DEF Makes, HookIds
<1>2. secret \in SecretRows /\ (taker # Stripe => secret = s)
  BY <1>1 DEF Secret, SecretRows
<1>3. new \in HookEntries /\ new.alive /\ new.address = t /\ new.secret = secret
  <2> HIDE DEF secret
  <2>1. QED BY <1>2 DEF HookEntries
<1> DEFINE aged(h) == [hooks[h] EXCEPT !.alive = @ /\ taker # Twilio]
<1>4. \A h \in HookIds :
         /\ aged(h) \in HookEntries /\ aged(h).address = hooks[h].address /\ aged(h).secret = hooks[h].secret
         /\ (aged(h).alive <=> hooks[h].alive /\ taker # Twilio)
  BY <1>1 DEF HookEntries
<1>5. old = [h \in 1..n |-> aged(h)]
  BY <1>1
<1> HIDE DEF new, aged, secret, old
<1>6. old \in Seq(HookEntries) /\ Len(old) = n /\ \A h \in 1..n : old[h] = aged(h)
  BY <1>1, <1>4, <1>5
<1>7. /\ hooks' \in Seq(HookEntries) /\ Len(hooks') = n + 1 /\ hooks'[n + 1] = new
      /\ \A h \in 1..n : hooks'[h] = aged(h)
  BY <1>1, <1>3, <1>6
<1>8. HookIds' = 1..(n + 1) /\ 1..(n + 1) = HookIds \cup {n + 1} /\ n + 1 \notin HookIds
  BY <1>1, <1>7 DEF HookIds
<1>9. HooksStay
  BY <1>1, <1>4, <1>7, <1>8 DEF HooksStay
<1>10. Alive' = {h \in HookIds' : hooks'[h].alive} /\ Alive = {h \in HookIds : hooks[h].alive}
  BY DEF Alive
<1>11. /\ taker # Twilio => Alive' = Alive \cup {n + 1}
       /\ taker = Twilio => Alive' = {n + 1}
  BY <1>1, <1>3, <1>4, <1>7, <1>8, <1>10
<1>12. QED BY <1>2, <1>3, <1>7, <1>8, <1>9, <1>11

\* What work knows holds as long as webhooks stay.
LEMMA KnowingStays ==
    ASSUME HooksStay, UNCHANGED taker, NEW d \in HookWorks, KnowsWell(d) PROVE KnowsWell(d)'
<1>1. \A h \in d.made : h \in HookIds /\ h \in HookIds'
  BY DEF KnowsWell, HooksStay
<1>2. d.read.known \cup d.left \cup d.made \subseteq HookIds'
  BY DEF KnowsWell, HooksStay
<1>3. \A h \in d.made : hooks'[h].address = hooks[h].address /\ hooks'[h].secret = hooks[h].secret
  BY <1>1 DEF HooksStay
<1>4. QED BY <1>2, <1>3 DEF KnowsWell

LEMMA NoWorkIsWork == ASSUME HookInv PROVE NoWork \in HookWorks /\ NoWork.op = "none" /\ KnowsWell(NoWork)
<1>1. BareRow \in HookRows /\ BareRow.known = {}
  BY HookShapes DEF BareRow, HookRows, NoSecret, Secret
<1>2. NoWork \in HookWorks
  BY <1>1 DEF NoWork, HookWorks, HookSets
<1>3. QED BY <1>1, <1>2 DEF NoWork, KnowsWell

\* While r works, whoever else works is crossed.
LEMMA OthersCrossed ==
    ASSUME HookInv, NEW r \in Admins, ~Idles(r), NEW q \in Admins \ {r}, ~Idles(q) PROVE q \in crossed
  BY DEF HookInv, WorkApart

\* The work of r is over.
LEMMA WorkEnds ==
    ASSUME HookInv, NEW r \in Admins, ~Idles(r), NEW undisturbed \in BOOLEAN, Through(r, undisturbed),
           HooksStay, UNCHANGED <<taker, tokens>>, hookRow' \in HookRows, hookRow'.known \subseteq HookIds',
           led' \in BOOLEAN
    PROVE  /\ HookTypes' /\ WorkApart' /\ WorkKnows' /\ UncrossedAsRead'
           /\ strays \subseteq strays'
           /\ ~undisturbed \/ r \in crossed =>
                 Alive' \subseteq hookRow'.known \cup strays' \cup UNION {doing'[q].made : q \in Admins}
           /\ doing'[r] = NoWork /\ \A q \in Admins \ {r} : doing'[q] = doing[q]
<1>1. /\ doing' = [doing EXCEPT ![r] = NoWork] /\ crossed' = crossed \ {r}
      /\ strays' = IF undisturbed /\ r \notin crossed THEN strays ELSE strays \cup LeftToNobody
  BY DEF Through
<1>2. /\ doing' \in [Admins -> HookWorks] /\ doing'[r] = NoWork
      /\ \A q \in Admins \ {r} : doing'[q] = doing[q]
  BY <1>1, HookShapes, NoWorkIsWork
<1>3. LeftToNobody = Alive' \ (hookRow'.known \cup UNION {doing'[q].made : q \in Admins})
  BY DEF LeftToNobody, Alive, HookIds
<1>4. HookIds' \subseteq HookNumbers /\ Alive' \subseteq HookIds'
  BY HookShapes DEF HooksStay, HookIds, HookNumbers, Alive
<1>5. strays' \subseteq HookNumbers /\ strays \subseteq strays'
  BY <1>1, <1>3, <1>4, HookShapes
<1>6. HookTypes'
  BY <1>1, <1>2, <1>5, HookShapes, HookTypesNext DEF HooksStay
<1>7. WorkApart'
  BY <1>1, <1>2 DEF HookInv, WorkApart, Idles, NoWork
<1>8. WorkKnows'
  <2>1. \A q \in Admins : KnowsWell(doing[q])
    BY DEF HookInv, WorkKnows
  <2>2. ASSUME NEW q \in Admins PROVE KnowsWell(doing[q])' \/ q = r
    <3> PICK d \in HookWorks : d = doing[q]
      BY HookShapes
    <3>1. KnowsWell(d)'
      BY <2>1, HookShapes, KnowingStays
    <3>2. CASE q # r
      <4>1. doing'[q] = d
        BY <1>2, <3>2
      <4>2. QED BY <3>1, <4>1
    <3>3. QED BY <3>2
  <2>3. KnowsWell(doing[r])'
    <3> PICK d \in HookWorks : d = NoWork /\ KnowsWell(d)
      BY NoWorkIsWork
    <3>1. KnowsWell(d)'
      BY KnowingStays
    <3>2. QED BY <1>2, <3>1
  <2>4. QED BY <2>2, <2>3 DEF WorkKnows
<1>9. UncrossedAsRead'
  <2>1. \A q \in Admins : ~Idles(q)' => q # r /\ ~Idles(q)
    BY <1>2 DEF Idles, NoWork
  <2>2. QED BY <1>1, <2>1, OthersCrossed DEF UncrossedAsRead
<1>10. QED BY <1>1, <1>2, <1>3, <1>5, <1>6, <1>7, <1>8, <1>9

\* The work of r goes on, as d.
LEMMA WorkGoesOn ==
    ASSUME HookInv, NEW r \in Admins, ~Idles(r), NEW d \in HookWorks, d.op = doing[r].op,
           doing' = [doing EXCEPT ![r] = d], UNCHANGED <<crossed, taker, tokens>>, led' \in BOOLEAN,
           HooksStay, hookRow' \in HookRows, hookRow'.known \subseteq HookIds',
           strays' \subseteq HookNumbers, KnowsWell(d)', r \notin crossed => AsItWasRead(d)'
    PROVE  HookTypes' /\ WorkApart' /\ WorkKnows' /\ UncrossedAsRead'
<1>1. doing' \in [Admins -> HookWorks] /\ doing'[r] = d /\ \A q \in Admins \ {r} : doing'[q] = doing[q]
  BY HookShapes
<1>2. HookTypes'
  BY <1>1, HookShapes, HookTypesNext DEF HooksStay
<1>3. \A q \in Admins : Idles(q)' <=> Idles(q)
  BY <1>1 DEF Idles
<1>4. WorkApart'
  BY <1>1, <1>3 DEF HookInv, WorkApart, Idles
<1>5. WorkKnows'
  <2>1. ASSUME NEW q \in Admins, q # r PROVE KnowsWell(doing[q])'
    <3> PICK c \in HookWorks : c = doing[q]
      BY HookShapes
    <3>1. KnowsWell(c)'
      BY HookShapes, KnowingStays DEF HookInv, WorkKnows
    <3>2. doing'[q] = c
      BY <1>1, <2>1
    <3>3. QED BY <3>1, <3>2
  <2>2. KnowsWell(doing[r])'
    BY <1>1
  <2>3. QED BY <2>1, <2>2 DEF WorkKnows
<1>6. UncrossedAsRead'
  <2>1. \A q \in Admins \ {r} : ~Idles(q) => q \in crossed
    BY OthersCrossed
  <2>2. r \notin crossed => AsItWasRead(doing[r])'
    BY <1>1
  <2>3. QED BY <1>3, <2>1, <2>2 DEF UncrossedAsRead
<1>7. QED BY <1>2, <1>4, <1>5, <1>6

\* The work of r begins, as d.
LEMMA WorkBegins ==
    ASSUME HookInv, NEW r \in Admins, Idles(r), NEW d \in HookWorks, d.op # "none", Starts(r, d),
           UNCHANGED <<taker, hooks, strays>>, tokens' \in HookTokens, led' \in BOOLEAN,
           hookRow' \in HookRows, hookRow'.known = hookRow.known, KnowsWell(d),
           (\A q \in Admins \ {r} : Idles(q)) => AsItWasRead(d)'
    PROVE  /\ HookTypes' /\ WorkApart' /\ WorkKnows' /\ UncrossedAsRead'
           /\ doing'[r] = d /\ \A q \in Admins \ {r} : doing'[q] = doing[q]
<1> DEFINE others == {q \in Admins \ {r} : ~Idles(q)}
<1>1. /\ doing' = [doing EXCEPT ![r] = d]
      /\ crossed' = IF others = {} THEN crossed ELSE crossed \cup others \cup {r}
  BY DEF Starts
<1>2. doing' \in [Admins -> HookWorks] /\ doing'[r] = d /\ \A q \in Admins \ {r} : doing'[q] = doing[q]
  BY <1>1, HookShapes
<1>3. HooksStay
  BY HookUnchanged
<1>4. HookTypes'
  BY <1>1, <1>2, <1>3, HookShapes, HookTypesNext
<1>5. ~Idles(r)' /\ \A q \in Admins \ {r} : Idles(q)' <=> Idles(q)
  BY <1>2 DEF Idles
<1>6. WorkApart'
  BY <1>1, <1>2, <1>5 DEF HookInv, WorkApart
<1>7. WorkKnows'
  <2>1. ASSUME NEW q \in Admins, q # r PROVE KnowsWell(doing[q])'
    <3> PICK c \in HookWorks : c = doing[q]
      BY HookShapes
    <3>1. KnowsWell(c)'
      BY <1>3, HookShapes, KnowingStays DEF HookInv, WorkKnows
    <3>2. doing'[q] = c
      BY <1>2, <2>1
    <3>3. QED BY <3>1, <3>2
  <2>2. KnowsWell(d)'
    BY <1>3, KnowingStays
  <2>3. KnowsWell(doing[r])'
    BY <1>2, <2>2
  <2>4. hookRow'.known \subseteq HookIds'
    BY <1>3 DEF HookInv, WorkKnows, HooksStay
  <2>5. QED BY <2>1, <2>3, <2>4 DEF WorkKnows
<1>8. UncrossedAsRead'
  <2>1. ASSUME NEW q \in Admins, q # r, ~Idles(q)' PROVE q \in crossed'
    BY <1>1, <1>5, <2>1
  <2>2. r \notin crossed' => AsItWasRead(doing[r])'
    BY <1>1, <1>2
  <2>3. QED BY <2>1, <2>2 DEF UncrossedAsRead
<1>9. QED BY <1>2, <1>4, <1>6, <1>7, <1>8

\* While the address stays led, no webhook is added that the row knows.
LEMMA EventsStill ==
    ASSUME HookInv, HooksStay, Alive' \cap HookIds \subseteq Alive, taker = Twilio => Alive' \subseteq Alive,
           taker' = taker, led' => led /\ hookRow' = hookRow
    PROVE  EventsComeIn'
<1> SUFFICES ASSUME led', NEW h \in Alive', h \in hookRow'.known \/ taker' = Twilio PROVE Accepts(h)'
  BY DEF EventsComeIn
<1>1. hookRow.known \subseteq HookIds /\ Alive \subseteq HookIds
  BY HookShapes DEF HookInv, WorkKnows
<1>2. h \in Alive /\ h \in HookIds /\ (h \in hookRow.known \/ taker = Twilio)
  BY <1>1
<1>3. Accepts(h)
  BY <1>2 DEF HookInv, EventsComeIn
<1>4. hooks'[h].address = hooks[h].address /\ hooks'[h].secret = hooks[h].secret
  BY <1>2 DEF HooksStay
<1>5. QED BY <1>3, <1>4 DEF Accepts, Verified, SubscriptionKnown

LEMMA LedStays ==
    ASSUME HookInv, taker' = taker, led' => led /\ hookRow' = hookRow,
           \A r \in Admins : doing'[r].op = "setup" => doing[r].op = "setup"
    PROVE  LedWell'
  BY DEF HookInv, LedWell

LEMMA KnownStill ==
    ASSUME HookInv, taker' = taker, Alive' \subseteq Alive,
           taker # Twilio => Alive' \subseteq hookRow'.known \cup strays' \cup UNION {doing'[q].made : q \in Admins}
    PROVE  HooksKnown'
<1>1. CASE taker = Twilio
  <2>1. IsFiniteSet(Alive)
    <3>1. IsFiniteSet(1..Len(hooks))
      BY HookShapes, FS_Interval
    <3>2. QED BY <3>1, HookShapes, FS_Subset DEF HookIds
  <2>2. Cardinality(Alive) <= 1 /\ Cardinality(Alive) \in Nat
    BY <1>1, <2>1, FS_CardinalityType DEF HookInv, HooksKnown
  <2>3. Cardinality(Alive') <= Cardinality(Alive) /\ Cardinality(Alive') \in Nat
    BY <2>1, FS_Subset, FS_CardinalityType
  <2>4. QED BY <1>1, <2>2, <2>3 DEF HooksKnown
<1>2. CASE taker # Twilio
  BY <1>2 DEF HooksKnown
<1>3. QED BY <1>1, <1>2

LEMMA KnownByAll ==
    ASSUME HookInv, taker # Twilio
    PROVE  Alive \subseteq hookRow.known \cup strays \cup UNION {doing[q].made : q \in Admins}
  BY DEF HookInv, HooksKnown

LEMMA TakersDiffer == Graph # Twilio /\ Stripe # Graph /\ Stripe # Twilio
  BY DEF Graph, Twilio, Stripe, Taker

\* What work that nothing crossed has made is all that was made.
LEMMA MadeAlone ==
    ASSUME HookInv, NEW r \in Admins, ~Idles(r), r \notin crossed
    PROVE  UNION {doing[q].made : q \in Admins} = doing[r].made
<1>1. \A q \in Admins \ {r} : doing[q].made = {}
  BY DEF HookInv, WorkApart, NoWork
<1>2. QED BY <1>1

LEMMA LapseStep == ASSUME HookInv, NEW h \in HookIds, Lapse(h) PROVE HookInv'
<1>1. HooksStay /\ Alive' \subseteq Alive /\ UNCHANGED <<taker, hookRow, tokens, doing, crossed, strays, led>>
  BY HookDies DEF Lapse, Dies, hookGhosts
<1>2. HookTypes'
  BY <1>1, HookShapes, HookTypesNext DEF HooksStay
<1>3. WorkApart'
  BY <1>1 DEF HookInv, WorkApart, Idles
<1>4. WorkKnows'
  <2>1. ASSUME NEW q \in Admins PROVE KnowsWell(doing[q])'
    <3> PICK d \in HookWorks : d = doing[q]
      BY HookShapes
    <3>1. KnowsWell(d)'
      BY <1>1, KnowingStays DEF HookInv, WorkKnows
    <3>2. QED BY <1>1, <3>1
  <2>2. QED BY <1>1, <2>1 DEF HookInv, WorkKnows, HooksStay
<1>5. UncrossedAsRead'
  BY <1>1 DEF HookInv, UncrossedAsRead, AsItWasRead, Idles
<1>6. LedWell' /\ EventsComeIn'
  BY <1>1, LedStays, EventsStill
<1>7. HooksKnown'
  BY <1>1, KnownStill, KnownByAll
<1>8. QED BY <1>2, <1>3, <1>4, <1>5, <1>6, <1>7 DEF HookInv

\* Turning webhooks on changes the token and the secret of the row.
LEMMA EnabledRow ==
    ASSUME HookInv, NEW registering \in BOOLEAN, tokens < MaxSetups, tokens' = tokens + 1,
           hookRow' = [hookRow EXCEPT !.token = tokens', !.secret = SecretFor(registering, tokens')]
    PROVE  tokens' \in HookTokens /\ hookRow' \in HookRows /\ hookRow'.known = hookRow.known
<1>1. tokens' \in HookTokens /\ tokens' \in Nat
  BY HookShapes DEF HookTokens
<1>2. SecretFor(registering, tokens') \in SecretRows
  BY <1>1 DEF SecretFor, Secret, SecretRows
<1> DEFINE secret == SecretFor(registering, tokens')
<1> HIDE DEF secret
<1>3. hookRow' = [hookRow EXCEPT !.token = tokens', !.secret = secret] /\ secret \in SecretRows
  BY <1>2 DEF secret
<1>4. QED BY <1>1, <1>3, HookShapes DEF HookRows, HookTokens, SecretRows

LEMMA EnableStep == ASSUME HookInv, NEW r \in Admins, NEW registering \in BOOLEAN, Enable(r, registering) PROVE HookInv'
<1>1. /\ Idles(r) /\ UNCHANGED <<taker, hooks, strays>> /\ led' = FALSE
      /\ tokens' \in HookTokens /\ hookRow' \in HookRows /\ hookRow'.known = hookRow.known
  BY EnabledRow DEF Enable
<1>2. HooksStay /\ Alive' = Alive
  BY <1>1, HookUnchanged
<1>3. LedWell' /\ EventsComeIn'
  BY <1>1 DEF LedWell, EventsComeIn
<1>4. CASE registering
  <2> DEFINE setUp == [op |-> "setup", read |-> hookRow', left |-> hookRow.known, made |-> {},
                      step |-> IF hookRow.known = {} THEN "make" ELSE "remove"]
  <2>1. setUp \in HookWorks
    BY <1>1, HookShapes DEF HookWorks, HookRows, HookSets, HookNumbers
  <2>2. Starts(r, setUp)
    BY <1>4 DEF Enable
  <2> PICK d \in HookWorks : d = setUp
    BY <2>1
  <2>3. /\ d.op = "setup" /\ d.read = hookRow' /\ d.left = hookRow.known /\ d.made = {}
        /\ d.step = IF hookRow.known = {} THEN "make" ELSE "remove"
    OBVIOUS
  <2>4. Starts(r, d)
    BY <2>2
  <2> HIDE DEF setUp
  <2>5. KnowsWell(d)
    BY <1>1, <2>3 DEF KnowsWell, HookInv, WorkKnows
  <2>6. AsItWasRead(d)'
    BY <1>1, <1>2, <2>3 DEF AsItWasRead
  <2>7. /\ HookTypes' /\ WorkApart' /\ WorkKnows' /\ UncrossedAsRead'
        /\ doing'[r] = d /\ \A q \in Admins \ {r} : doing'[q] = doing[q]
    BY <1>1, <2>3, <2>4, <2>5, <2>6, WorkBegins
  <2>8. \A q \in Admins : doing'[q].made = doing[q].made
    BY <1>1, <2>3, <2>7 DEF HookInv, WorkApart, NoWork
  <2>9. HooksKnown'
    BY <1>1, <1>2, <2>8, KnownStill, KnownByAll
  <2>10. QED BY <1>3, <2>7, <2>9 DEF HookInv
<1>5. CASE ~registering
  <2>1. crossed' = crossed \cup {q \in Admins : ~Idles(q)} /\ doing' = doing
    BY <1>5 DEF Enable
  <2>2. HookTypes'
    BY <1>1, <1>2, <2>1, HookShapes, HookTypesNext DEF HooksStay
  <2>3. WorkApart' /\ UncrossedAsRead'
    BY <2>1 DEF HookInv, WorkApart, UncrossedAsRead, Idles
  <2>4. WorkKnows'
    BY <1>1, <2>1 DEF HookInv, WorkKnows, KnowsWell, HookIds
  <2>5. HooksKnown'
    BY <1>1, <1>2, <2>1, KnownStill, KnownByAll
  <2>6. QED BY <1>3, <2>2, <2>3, <2>4, <2>5 DEF HookInv
<1>6. QED BY <1>4, <1>5

LEMMA RemoveHookStep == ASSUME HookInv, NEW r \in Admins, NEW h \in HookIds, RemoveHook(r, h) PROVE HookInv'
<1> DEFINE left == doing[r].left \ {h}
           step == IF left # {} THEN "remove" ELSE IF doing[r].op = "disconnect" THEN "save" ELSE "make"
           later == [doing[r] EXCEPT !.step = step, !.left = left, !.made = {}]
           clears == left = {} /\ taker = Graph /\ doing[r].op = "setup"
<1>1. /\ doing[r].step = "remove" /\ h \in doing[r].left
      /\ UNCHANGED <<taker, tokens, crossed>> /\ hooks' = [hooks EXCEPT ![h].alive = FALSE]
      /\ doing' = [doing EXCEPT ![r].step = step, ![r].left = left, ![r].made = {}]
      /\ hookRow' = IF clears THEN [hookRow EXCEPT !.known = {}] ELSE hookRow
      /\ led' = (led /\ hookRow' = hookRow)
      /\ strays' = IF r \in crossed THEN strays \cup LeftToNobody ELSE strays
  BY DEF RemoveHook, MovesOn
<1>2. doing[r] \in HookWorks /\ doing[r].op \in {"setup", "disconnect"} /\ doing[r].made = {} /\ ~Idles(r)
  BY <1>1, HookShapes DEF HookInv, WorkKnows, KnowsWell, Idles
<1>17. /\ later \in HookWorks /\ later.op = doing[r].op /\ later.read = doing[r].read /\ later.step = step
       /\ later.left = left /\ later.made = {}
  BY <1>2 DEF HookWorks, HookSets
<1>18. doing' = [doing EXCEPT ![r] = later]
  BY <1>1, HookShapes
<1> HIDE DEF later
<1> PICK d \in HookWorks : d = later
  BY <1>17
<1>3. d.op = doing[r].op /\ d.read = doing[r].read /\ d.step = step /\ d.left = left /\ d.made = {}
  BY <1>17
<1>4. doing' = [doing EXCEPT ![r] = d]
  BY <1>18
<1>5. HooksStay /\ Alive' = Alive \ {h} /\ HookIds' = HookIds
  BY <1>1, HookDies DEF Dies
<1>6. /\ hookRow' \in HookRows /\ hookRow'.known \subseteq hookRow.known /\ hookRow'.known \subseteq HookIds'
      /\ hookRow'.status = hookRow.status /\ hookRow'.token = hookRow.token
      /\ hookRow'.secret = hookRow.secret /\ hookRow'.url = hookRow.url
      /\ hookRow'.known = IF clears THEN {} ELSE hookRow.known
  <2>1. hookRow \in HookRows /\ hookRow.known \subseteq HookIds'
    BY <1>5, HookShapes DEF HookInv, WorkKnows
  <2>2. QED BY <1>1, <2>1 DEF HookRows
<1>7. LeftToNobody = Alive' \ (hookRow'.known \cup UNION {doing'[q].made : q \in Admins})
  BY DEF LeftToNobody, Alive, HookIds
<1>8. strays' \subseteq HookNumbers /\ strays \subseteq strays'
  BY <1>1, <1>5, <1>7, HookShapes
<1>9. KnowsWell(doing[r]) /\ (r \notin crossed => AsItWasRead(doing[r]))
  BY <1>2 DEF HookInv, WorkKnows, UncrossedAsRead
<1>10. KnowsWell(d)'
  BY <1>2, <1>3, <1>5, <1>9 DEF KnowsWell
<1>11. r \notin crossed => AsItWasRead(d)'
  <2> SUFFICES ASSUME r \notin crossed PROVE AsItWasRead(d)'
    OBVIOUS
  <2>1. AsItWasRead(doing[r]) /\ strays' = strays
    BY <1>1, <1>9
  <2>2. d.op = "setup" /\ d.step = "remove" => Alive' \cap hookRow'.known \subseteq d.left
    BY <1>1, <1>3, <1>5, <1>6, <2>1 DEF AsItWasRead
  <2>3. d.op = "setup" /\ d.step # "remove" => Alive' \cap hookRow'.known = {}
    BY <1>1, <1>3, <1>5, <1>6, <2>1 DEF AsItWasRead
  <2>4. d.op = "disconnect" /\ taker # Twilio => Alive' \subseteq strays' \cup d.left
    BY <1>1, <1>3, <1>5, <2>1 DEF AsItWasRead
  <2>5. QED BY <1>1, <1>2, <1>3, <1>6, <2>1, <2>2, <2>3, <2>4 DEF AsItWasRead
<1>12. HookTypes' /\ WorkApart' /\ WorkKnows' /\ UncrossedAsRead'
  <2>1. led' \in BOOLEAN
    BY <1>1
  <2>2. doing'[r] = d /\ \A q \in Admins \ {r} : doing'[q] = doing[q]
    BY <1>4, HookShapes
  <2>3. QED BY <1>1, <1>2, <1>3, <1>4, <1>5, <1>6, <1>8, <1>10, <1>11, <2>1, WorkGoesOn
<1>13. /\ doing'[r] = d /\ \A q \in Admins \ {r} : doing'[q] = doing[q]
       /\ \A q \in Admins : doing'[q].made = doing[q].made /\ doing'[q].op = doing[q].op
  <2>1. doing'[r] = d /\ \A q \in Admins \ {r} : doing'[q] = doing[q]
    BY <1>4, HookShapes
  <2>2. QED BY <1>2, <1>3, <2>1
<1>14. LedWell' /\ EventsComeIn'
  BY <1>1, <1>5, <1>13, LedStays, EventsStill
<1>15. HooksKnown'
  <2>1. CASE r \in crossed
    BY <1>1, <1>5, <1>7, <2>1, KnownStill
  <2>2. CASE r \notin crossed
    <3>1. UNION {doing'[q].made : q \in Admins} = UNION {doing[q].made : q \in Admins}
      BY <1>13
    <3>2. clears => Alive' \cap hookRow.known = {}
      BY <1>1, <1>2, <1>5, <1>9, <2>2 DEF AsItWasRead
    <3>3. taker # Twilio => Alive' \subseteq hookRow'.known \cup strays' \cup UNION {doing'[q].made : q \in Admins}
      BY <1>1, <1>5, <1>6, <2>2, <3>1, <3>2, KnownByAll
    <3>4. QED BY <1>1, <1>5, <3>3, KnownStill
  <2>3. QED BY <2>1, <2>2
<1>16. QED BY <1>12, <1>14, <1>15 DEF HookInv

LEMMA MakeHookStep == ASSUME HookInv, NEW r \in Admins, MakeHook(r) PROVE HookInv'
<1> PICK n \in Nat : n = Len(hooks')
  <2>1. /\ doing[r].read.token \in HookTokens /\ doing[r].read.secret \in SecretRows
        /\ Makes(doing[r].read.token, doing[r].read.secret)
    BY HookShapes DEF HookRows, HookTokens, SecretRows, MakeHook
  <2>2. Len(hooks') = Len(hooks) + 1
    BY <2>1, HookComes
  <2>3. QED BY <2>2, HookShapes
<1> DEFINE madeNow == doing[r].made \cup {n}
           step == IF taker = Graph /\ Cardinality(madeNow) < Subscriptions THEN "make" ELSE "save"
           later == [doing[r] EXCEPT !.step = step, !.left = {}, !.made = madeNow]
<1>1. /\ doing[r].op = "setup" /\ doing[r].step = "make" /\ doing[r].read.status = "active"
      /\ UNCHANGED <<taker, hookRow, tokens, strays, led, crossed>>
      /\ Makes(doing[r].read.token, doing[r].read.secret)
      /\ doing' = [doing EXCEPT ![r].step = step, ![r].left = {}, ![r].made = madeNow]
  BY DEF MakeHook, MovesOn, AtStep, MayCall
<1>2. /\ doing[r] \in HookWorks /\ ~Idles(r) /\ doing[r].read.token \in HookTokens
      /\ doing[r].read.secret \in SecretRows /\ KnowsWell(doing[r])
      /\ r \notin crossed => AsItWasRead(doing[r])
  BY <1>1, HookShapes DEF HookRows, HookTokens, SecretRows, Idles, HookInv, WorkKnows, UncrossedAsRead
<1>3. /\ HooksStay /\ n \notin HookIds /\ HookIds' = HookIds \cup {n}
      /\ hooks'[n].address = doing[r].read.token
      /\ taker # Stripe => hooks'[n].secret = doing[r].read.secret
      /\ taker # Twilio => Alive' = Alive \cup {n}
      /\ taker = Twilio => Alive' = {n}
  BY <1>1, <1>2, HookComes
<1>4. HookIds' \subseteq HookNumbers
  BY <1>3, HookShapes DEF HooksStay, HookIds, HookNumbers
<1>15. /\ later \in HookWorks /\ later.op = "setup" /\ later.read = doing[r].read /\ later.step = step
       /\ later.left = {} /\ later.made = madeNow /\ later.op = doing[r].op
  BY <1>1, <1>2, <1>3, <1>4 DEF HookWorks, HookSets
<1>16. doing' = [doing EXCEPT ![r] = later]
  BY <1>1, HookShapes
<1>7. step \in {"make", "save"} /\ (taker # Graph => step = "save")
  OBVIOUS
<1> HIDE DEF later, step
<1> PICK d \in HookWorks : d = later
  BY <1>15
<1>5. /\ d.op = "setup" /\ d.read = doing[r].read /\ d.step = step /\ d.left = {} /\ d.made = madeNow
      /\ d.op = doing[r].op
  BY <1>15
<1>6. doing' = [doing EXCEPT ![r] = d]
  BY <1>16
<1>8. doing'[r] = d /\ \A q \in Admins \ {r} : doing'[q] = doing[q]
  BY <1>6, HookShapes
<1>9. KnowsWell(d)'
  <2>1. d.read.known \cup d.left \cup d.made \subseteq HookIds'
    BY <1>2, <1>3, <1>5 DEF KnowsWell
  <2>2. \A h \in d.made : /\ hooks'[h].address = d.read.token
                          /\ taker # Stripe => hooks'[h].secret = d.read.secret
    BY <1>1, <1>2, <1>3, <1>5 DEF KnowsWell, HooksStay
  <2>3. taker # Graph => d.made = {n}
    BY <1>1, <1>2, <1>5 DEF KnowsWell
  <2>4. n \in d.made
    BY <1>5
  <2>5. QED BY <1>1, <1>5, <1>7, <2>1, <2>2, <2>3, <2>4 DEF KnowsWell
<1>10. r \notin crossed => AsItWasRead(d)'
  <2> SUFFICES ASSUME r \notin crossed PROVE AsItWasRead(d)'
    OBVIOUS
  <2>1. hookRow.known \subseteq HookIds
    BY DEF HookInv, WorkKnows
  <2>2. Alive' \cap hookRow'.known = {}
    BY <1>1, <1>2, <1>3, <2>1 DEF AsItWasRead
  <2>3. taker = Twilio => Alive' \subseteq d.made
    BY <1>3, <1>5
  <2>4. QED BY <1>1, <1>2, <1>5, <1>7, <2>2, <2>3 DEF AsItWasRead
<1>11. HookTypes' /\ WorkApart' /\ WorkKnows' /\ UncrossedAsRead'
  <2>1. hookRow' \in HookRows /\ hookRow'.known \subseteq HookIds' /\ strays' \subseteq HookNumbers
    BY <1>1, <1>3, HookShapes DEF HookInv, WorkKnows
  <2>2. led' \in BOOLEAN
    BY <1>1, HookShapes
  <2>3. QED BY <1>1, <1>2, <1>3, <1>5, <1>6, <1>9, <1>10, <2>1, <2>2, WorkGoesOn
<1>12. ~led'
  BY <1>1, HookShapes DEF HookInv, LedWell
<1>13. HooksKnown'
  <2>1. CASE taker = Twilio
    <3>1. Cardinality(Alive') = 1
      BY <1>3, <2>1, FS_Singleton
    <3>2. QED BY <1>1, <2>1, <3>1 DEF HooksKnown
  <2>2. CASE taker # Twilio
    <3>1. \A q \in Admins : doing[q].made \subseteq doing'[q].made
      BY <1>5, <1>8
    <3>2. n \in UNION {doing'[q].made : q \in Admins}
      BY <1>5, <1>8
    <3>3. Alive' \subseteq hookRow.known \cup strays \cup UNION {doing'[q].made : q \in Admins}
      BY <1>3, <2>2, <3>1, <3>2, KnownByAll
    <3>4. QED BY <1>1, <2>2, <3>3 DEF HooksKnown
  <2>3. QED BY <2>1, <2>2
<1>14. QED BY <1>11, <1>12, <1>13 DEF HookInv, LedWell, EventsComeIn

\* The registered webhook is the one the row keeps, with the secret it signs with.
LEMMA SavedRow ==
    ASSUME HookInv, NEW r \in Admins, SaveHook(r)
    PROVE  /\ hookRow' \in HookRows /\ hookRow'.status = hookRow.status /\ hookRow'.token = hookRow.token
           /\ taker # Twilio => hookRow'.known = doing[r].made
           /\ hookRow'.known \subseteq doing[r].made
           /\ taker = Graph => hookRow'.url = doing[r].read.token
           /\ taker # Stripe => hookRow'.secret = hookRow.secret
           /\ taker = Stripe => \A h \in doing[r].made : hookRow'.secret = hooks[h].secret
<1> DEFINE known == doing[r].made \ (IF taker = Twilio THEN HookIds ELSE {})
           secret == IF taker = Stripe THEN hooks[CHOOSE h \in doing[r].made : TRUE].secret ELSE hookRow.secret
           url == IF taker \in {Graph, Twilio} THEN doing[r].read.token ELSE hookRow.url
<1>1. /\ doing[r].op = "setup" /\ doing[r].step = "save"
      /\ hookRow' = [hookRow EXCEPT !.known = known, !.secret = secret, !.url = url]
  BY DEF SaveHook, AtStep
<1>2. /\ KnowsWell(doing[r]) /\ doing[r] \in HookWorks /\ doing[r].read \in HookRows
      /\ hookRow \in HookRows
  BY HookShapes DEF HookInv, WorkKnows
<1>3. /\ doing[r].made \subseteq HookIds /\ HookIds \subseteq HookNumbers
      /\ \E h \in doing[r].made : taker # Graph => doing[r].made = {h}
  BY <1>1, <1>2, HookShapes DEF KnowsWell
<1>4. known \subseteq HookNumbers /\ known \subseteq doing[r].made /\ (taker # Twilio => known = doing[r].made)
  BY <1>3
<1>5. url \in HookTokens /\ (taker = Graph => url = doing[r].read.token)
  BY <1>2 DEF HookRows, HookTokens
<1>6. taker = Stripe => \A h \in doing[r].made : secret = hooks[h].secret
  BY <1>3, TakersDiffer
<1>7. secret \in SecretRows
  <2>1. \A h \in doing[r].made : hooks[h].secret \in SecretRows
    BY <1>3, HookShapes DEF HookEntries
  <2>2. hookRow.secret \in SecretRows
    BY <1>2 DEF HookRows, SecretRows
  <2>3. QED BY <1>3, <1>6, <2>1, <2>2
<1>8. taker # Stripe => secret = hookRow.secret
  OBVIOUS
<1> HIDE DEF known, secret, url
<1>9. /\ hookRow' \in HookRows /\ hookRow'.status = hookRow.status /\ hookRow'.token = hookRow.token
      /\ hookRow'.known = known /\ hookRow'.secret = secret /\ hookRow'.url = url
  BY <1>1, <1>2, <1>4, <1>5, <1>7 DEF HookRows, HookTokens, SecretRows, HookNumbers
<1>10. QED BY <1>4, <1>5, <1>6, <1>8, <1>9

LEMMA SaveHookStep == ASSUME HookInv, NEW r \in Admins, SaveHook(r) PROVE HookInv'
<1>1. /\ doing[r].op = "setup" /\ doing[r].step = "save" /\ ~Idles(r) /\ UNCHANGED <<taker, tokens, hooks>>
      /\ Through(r, TRUE) /\ led' = (r \notin crossed)
  BY DEF SaveHook, AtStep, Idles
<1>2. HooksStay /\ Alive' = Alive /\ HookIds' = HookIds
  BY <1>1, HookUnchanged DEF HookIds
<1>3. /\ doing[r].made \subseteq HookIds /\ doing[r].read.status = "active" /\ doing[r].made # {}
      /\ \A h \in doing[r].made : /\ hooks[h].address = doing[r].read.token
                                  /\ taker # Stripe => hooks[h].secret = doing[r].read.secret
  BY <1>1 DEF HookInv, WorkKnows, KnowsWell
<1>4. /\ HookTypes' /\ WorkApart' /\ WorkKnows' /\ UncrossedAsRead'
      /\ strays \subseteq strays'
      /\ r \in crossed =>
            Alive' \subseteq hookRow'.known \cup strays' \cup UNION {doing'[q].made : q \in Admins}
      /\ doing'[r] = NoWork /\ \A q \in Admins \ {r} : doing'[q] = doing[q]
  BY <1>1, <1>2, <1>3, SavedRow, WorkEnds
<1>5. r \notin crossed =>
         /\ hookRow.status = "active" /\ hookRow.token = doing[r].read.token
         /\ hookRow.secret = doing[r].read.secret /\ Alive \cap hookRow.known = {}
         /\ taker = Twilio => Alive \subseteq doing[r].made
  BY <1>1, <1>3 DEF HookInv, UncrossedAsRead, AsItWasRead
<1>6. LedWell'
  <2> SUFFICES ASSUME r \notin crossed PROVE LedWell'
    BY <1>1 DEF LedWell
  <2>1. \A q \in Admins : doing'[q] = NoWork
    BY <1>1, <1>4 DEF HookInv, WorkApart
  <2>2. QED BY <1>1, <1>5, <2>1, SavedRow DEF LedWell, NoWork
<1>7. EventsComeIn'
  <2> SUFFICES ASSUME r \notin crossed, NEW h \in Alive', h \in hookRow'.known \/ taker' = Twilio PROVE Accepts(h)'
    BY <1>1 DEF EventsComeIn
  <2>1. h \in doing[r].made
    BY <1>1, <1>2, <1>5, SavedRow
  <2>2. hookRow'.status = "active" /\ hooks[h].address = hookRow'.token /\ hooks[h].secret = hookRow'.secret
    BY <1>3, <1>5, <2>1, SavedRow
  <2>3. taker = Graph => h \in hookRow'.known
    BY <2>1, SavedRow, TakersDiffer
  <2>4. QED BY <1>1, <2>2, <2>3 DEF Accepts, Verified, SubscriptionKnown
<1>8. HooksKnown'
  <2>1. ASSUME taker # Twilio, r \notin crossed PROVE Alive' \subseteq hookRow'.known \cup strays'
    <3>1. Alive \subseteq strays \cup doing[r].made
      BY <1>1, <1>5, <2>1, KnownByAll, MadeAlone
    <3>2. QED BY <1>2, <1>4, <2>1, <3>1, SavedRow
  <2>2. QED BY <1>1, <1>2, <1>4, <2>1, KnownStill
<1>9. QED BY <1>4, <1>6, <1>7, <1>8 DEF HookInv

\* Work that ends and leaves the row as it was.
LEMMA GivesUpStep ==
    ASSUME HookInv, NEW r \in Admins, ~Idles(r), UNCHANGED <<taker, hookRow, tokens, hooks, led>>, Through(r, FALSE)
    PROVE  HookInv'
<1>1. HooksStay /\ Alive' = Alive /\ hookRow' \in HookRows /\ hookRow'.known \subseteq HookIds' /\ led' \in BOOLEAN
  BY HookUnchanged, HookShapes DEF HookInv, WorkKnows, HookIds
<1>2. /\ HookTypes' /\ WorkApart' /\ WorkKnows' /\ UncrossedAsRead'
      /\ Alive' \subseteq hookRow'.known \cup strays' \cup UNION {doing'[q].made : q \in Admins}
      /\ doing'[r] = NoWork /\ \A q \in Admins \ {r} : doing'[q] = doing[q]
  BY <1>1, WorkEnds
<1>3. \A q \in Admins : doing'[q].op = "setup" => doing[q].op = "setup"
  BY <1>2 DEF NoWork
<1>4. LedWell' /\ EventsComeIn' /\ HooksKnown'
  BY <1>1, <1>2, <1>3, LedStays, EventsStill, KnownStill
<1>5. QED BY <1>2, <1>4 DEF HookInv

LEMMA SetupFailsStep == ASSUME HookInv, NEW r \in Admins, SetupFails(r) PROVE HookInv'
  BY GivesUpStep DEF SetupFails, AtStep, Idles

LEMMA GoAwayStep == ASSUME HookInv, NEW r \in Admins, GoAway(r) PROVE HookInv'
  BY GivesUpStep DEF GoAway

\* A registration whose answer was lost left a webhook to nobody.
LEMMA AnswerLostStep == ASSUME HookInv, NEW r \in Admins, AnswerLost(r) PROVE HookInv'
<1>1. /\ doing[r].op = "setup" /\ ~Idles(r) /\ UNCHANGED <<taker, hookRow, tokens, led>> /\ Through(r, FALSE)
      /\ Makes(doing[r].read.token, doing[r].read.secret)
  BY DEF AnswerLost, AtStep, Idles
<1>2. doing[r].read.token \in HookTokens /\ doing[r].read.secret \in SecretRows
  BY HookShapes DEF HookRows, HookTokens, SecretRows
<1>3. HooksStay /\ (taker = Twilio => Alive' = {Len(hooks')})
  BY <1>1, <1>2, HookComes
<1>4. hookRow' \in HookRows /\ hookRow'.known \subseteq HookIds' /\ led' \in BOOLEAN
  BY <1>1, <1>3, HookShapes DEF HookInv, WorkKnows, HooksStay
<1>5. /\ HookTypes' /\ WorkApart' /\ WorkKnows' /\ UncrossedAsRead'
      /\ Alive' \subseteq hookRow'.known \cup strays' \cup UNION {doing'[q].made : q \in Admins}
  BY <1>1, <1>3, <1>4, WorkEnds
<1>6. ~led'
  BY <1>1, HookShapes DEF HookInv, LedWell
<1>7. HooksKnown'
  <2>1. CASE taker = Twilio
    <3>1. Cardinality(Alive') = 1
      BY <1>3, <2>1, FS_Singleton
    <3>2. QED BY <1>1, <2>1, <3>1 DEF HooksKnown
  <2>2. QED BY <1>1, <1>5, <2>1 DEF HooksKnown
<1>8. QED BY <1>5, <1>6, <1>7 DEF HookInv, LedWell, EventsComeIn

\* Work that begins and leaves the row as it was.
LEMMA WorkStarts ==
    ASSUME HookInv, NEW r \in Admins, Idles(r), NEW d \in HookWorks, d.op \notin {"none", "setup"}, d.made = {},
           Starts(r, d), UNCHANGED <<taker, hookRow, tokens, hooks, strays, led>>, KnowsWell(d),
           (\A q \in Admins \ {r} : Idles(q)) => AsItWasRead(d)
    PROVE  HookInv'
<1>1. /\ HooksStay /\ Alive' = Alive /\ tokens' \in HookTokens /\ led' \in BOOLEAN /\ hookRow' \in HookRows
  BY HookUnchanged, HookShapes
<1>2. AsItWasRead(d) => AsItWasRead(d)'
  BY <1>1 DEF AsItWasRead
<1>3. /\ HookTypes' /\ WorkApart' /\ WorkKnows' /\ UncrossedAsRead'
      /\ doing'[r] = d /\ \A q \in Admins \ {r} : doing'[q] = doing[q]
  BY <1>1, <1>2, WorkBegins
<1>4. /\ \A q \in Admins : doing'[q].op = "setup" => doing[q].op = "setup"
      /\ \A q \in Admins : doing'[q].made = doing[q].made
  <2>1. doing[r].made = {}
    BY DEF HookInv, WorkApart, NoWork
  <2>2. ASSUME NEW q \in Admins
        PROVE  (doing'[q].op = "setup" => doing[q].op = "setup") /\ doing'[q].made = doing[q].made
    <3>1. CASE q = r
      BY <1>3, <2>1, <3>1
    <3>2. CASE q # r
      BY <1>3, <3>2
    <3>3. QED BY <3>1, <3>2
  <2>3. QED BY <2>2
<1>5. LedWell' /\ EventsComeIn'
  BY <1>1, <1>4, LedStays, EventsStill
<1>6. HooksKnown'
  BY <1>1, <1>4, KnownStill, KnownByAll
<1>7. QED BY <1>3, <1>5, <1>6 DEF HookInv

LEMMA OpenConfigStep == ASSUME HookInv, NEW r \in Admins, OpenConfig(r) PROVE HookInv'
<1> DEFINE config == [op |-> "config", step |-> "save", read |-> hookRow, left |-> {}, made |-> {}]
<1>1. Idles(r) /\ Starts(r, config) /\ UNCHANGED <<taker, hookRow, tokens, hooks, strays, led>>
  BY DEF OpenConfig
<1> PICK d \in HookWorks : d = config
  BY HookShapes DEF HookWorks, HookSets
<1>2. d.op = "config" /\ d.step = "save" /\ d.read = hookRow /\ d.left = {} /\ d.made = {}
  OBVIOUS
<1>3. Starts(r, d)
  BY <1>1
<1> HIDE DEF config
<1>4. KnowsWell(d) /\ AsItWasRead(d)
  BY <1>2 DEF KnowsWell, AsItWasRead, HookInv, WorkKnows
<1>5. QED BY <1>1, <1>2, <1>3, <1>4, WorkStarts

LEMMA BeginRenewalStep == ASSUME HookInv, NEW r \in Admins, BeginRenewal(r) PROVE HookInv'
<1>1. Idles(r) /\ taker = Graph /\ UNCHANGED <<taker, hookRow, tokens, hooks, strays, led>>
  BY DEF BeginRenewal
<1>2. PICK lapsing \in SUBSET hookRow.known :
         Starts(r, [op |-> "renew", step |-> "renew", read |-> hookRow, left |-> lapsing, made |-> {}])
  BY DEF BeginRenewal
<1> DEFINE renewal == [op |-> "renew", step |-> "renew", read |-> hookRow, left |-> lapsing, made |-> {}]
<1>3. hookRow.known \subseteq HookIds /\ lapsing \subseteq HookNumbers
  BY HookShapes DEF HookInv, WorkKnows
<1> PICK d \in HookWorks : d = renewal
  BY <1>3, HookShapes DEF HookWorks, HookSets
<1>4. d.op = "renew" /\ d.step = "renew" /\ d.read = hookRow /\ d.left = lapsing /\ d.made = {}
  OBVIOUS
<1>5. Starts(r, d)
  BY <1>2
<1> HIDE DEF renewal
<1>6. KnowsWell(d)
  BY <1>1, <1>3, <1>4 DEF KnowsWell
<1>7. AsItWasRead(d)
  BY <1>4 DEF AsItWasRead
<1>8. QED BY <1>1, <1>4, <1>5, <1>6, <1>7, WorkStarts

LEMMA BeginRemovalStep == ASSUME HookInv, NEW r \in Admins, BeginRemoval(r) PROVE HookInv'
<1> DEFINE removal == [op |-> "disconnect", read |-> hookRow, left |-> hookRow.known, made |-> {},
                       step |-> IF hookRow.known = {} THEN "save" ELSE "remove"]
<1>1. Idles(r) /\ Starts(r, removal) /\ UNCHANGED <<taker, hookRow, tokens, hooks, strays, led>>
  BY DEF BeginRemoval
<1>2. hookRow.known \subseteq HookIds /\ hookRow.known \subseteq HookNumbers
  BY HookShapes DEF HookInv, WorkKnows
<1> PICK d \in HookWorks : d = removal
  BY <1>2, HookShapes DEF HookWorks, HookSets
<1>3. /\ d.op = "disconnect" /\ d.read = hookRow /\ d.left = hookRow.known /\ d.made = {}
      /\ d.step = IF hookRow.known = {} THEN "save" ELSE "remove"
  OBVIOUS
<1>4. Starts(r, d)
  BY <1>1
<1> HIDE DEF removal
<1>5. KnowsWell(d)
  BY <1>2, <1>3 DEF KnowsWell
<1>6. ASSUME \A q \in Admins \ {r} : Idles(q) PROVE AsItWasRead(d)
  <2>1. \A q \in Admins : doing[q].made = {}
    BY <1>1, <1>6 DEF HookInv, WorkApart, NoWork
  <2>2. taker # Twilio => Alive \subseteq hookRow.known \cup strays
    BY <2>1, KnownByAll
  <2>3. QED BY <1>3, <2>2 DEF AsItWasRead
<1>7. QED BY <1>1, <1>3, <1>4, <1>5, <1>6, WorkStarts

LEMMA SaveConfigStep == ASSUME HookInv, NEW r \in Admins, SaveConfig(r) PROVE HookInv'
<1>1. /\ doing[r].op = "config" /\ ~Idles(r) /\ UNCHANGED <<taker, tokens, hooks>> /\ Through(r, TRUE)
      /\ hookRow' = [hookRow EXCEPT !.known = doing[r].read.known] /\ led' = (led /\ r \notin crossed)
  BY DEF SaveConfig, AtStep, Idles
<1>2. KnowsWell(doing[r]) /\ (r \notin crossed => AsItWasRead(doing[r]))
  BY <1>1 DEF HookInv, WorkKnows, UncrossedAsRead
<1>3. doing[r].read.known \subseteq HookIds /\ doing[r].made = {}
  BY <1>1, <1>2 DEF KnowsWell
<1>4. hookRow' \in HookRows /\ hookRow'.known = doing[r].read.known
  BY <1>1, HookShapes DEF HookRows
<1>5. r \notin crossed => hookRow' = hookRow
  BY <1>1, <1>2, HookShapes DEF AsItWasRead, HookRows
<1>6. HooksStay /\ Alive' = Alive /\ HookIds' = HookIds /\ led' \in BOOLEAN
  BY <1>1, HookUnchanged DEF HookIds
<1>7. /\ HookTypes' /\ WorkApart' /\ WorkKnows' /\ UncrossedAsRead'
      /\ strays \subseteq strays'
      /\ r \in crossed =>
            Alive' \subseteq hookRow'.known \cup strays' \cup UNION {doing'[q].made : q \in Admins}
      /\ doing'[r] = NoWork /\ \A q \in Admins \ {r} : doing'[q] = doing[q]
  BY <1>1, <1>3, <1>4, <1>6, WorkEnds
<1>8. \A q \in Admins : doing'[q].op = "setup" => doing[q].op = "setup"
  BY <1>7 DEF NoWork
<1>9. LedWell' /\ EventsComeIn'
  BY <1>1, <1>5, <1>6, <1>8, LedStays, EventsStill
<1>10. HooksKnown'
  <2>1. r \notin crossed /\ taker # Twilio => Alive' \subseteq hookRow'.known \cup strays'
    BY <1>1, <1>3, <1>5, <1>6, <1>7, KnownByAll, MadeAlone
  <2>2. QED BY <1>1, <1>6, <1>7, <2>1, KnownStill
<1>11. QED BY <1>7, <1>9, <1>10 DEF HookInv

LEMMA SaveRenewalStep == ASSUME HookInv, NEW r \in Admins, SaveRenewal(r) PROVE HookInv'
<1> DEFINE known == doing[r].read.known \cup doing[r].made
<1>1. /\ doing[r].op = "renew" /\ ~Idles(r) /\ UNCHANGED <<taker, tokens, hooks>> /\ Through(r, TRUE)
      /\ hookRow' = [hookRow EXCEPT !.known = known] /\ led' = (led /\ r \notin crossed)
  BY DEF SaveRenewal, AtStep, Idles
<1>2. KnowsWell(doing[r]) /\ (r \notin crossed => AsItWasRead(doing[r]))
  BY <1>1 DEF HookInv, WorkKnows, UncrossedAsRead
<1>3. /\ known \subseteq HookIds /\ known \subseteq HookNumbers /\ taker = Graph
      /\ \A h \in doing[r].made : hooks[h].address = doing[r].read.url /\ hooks[h].secret = doing[r].read.secret
  BY <1>1, <1>2, HookShapes DEF KnowsWell
<1> HIDE DEF known
<1>4. /\ hookRow' \in HookRows /\ hookRow'.known = known /\ hookRow'.status = hookRow.status
      /\ hookRow'.token = hookRow.token /\ hookRow'.secret = hookRow.secret /\ hookRow'.url = hookRow.url
  BY <1>1, <1>3, HookShapes DEF HookRows, HookNumbers
<1>5. HooksStay /\ Alive' = Alive /\ HookIds' = HookIds /\ led' \in BOOLEAN
  BY <1>1, HookUnchanged DEF HookIds
<1>6. /\ HookTypes' /\ WorkApart' /\ WorkKnows' /\ UncrossedAsRead'
      /\ strays \subseteq strays'
      /\ r \in crossed =>
            Alive' \subseteq hookRow'.known \cup strays' \cup UNION {doing'[q].made : q \in Admins}
      /\ doing'[r] = NoWork /\ \A q \in Admins \ {r} : doing'[q] = doing[q]
  BY <1>1, <1>3, <1>4, <1>5, WorkEnds
<1>7. \A q \in Admins : doing'[q].op = "setup" => doing[q].op = "setup"
  BY <1>6 DEF NoWork
<1>8. LedWell'
  BY <1>1, <1>4, <1>7 DEF HookInv, LedWell
<1>9. EventsComeIn'
  <2> SUFFICES ASSUME led', NEW h \in Alive', h \in hookRow'.known \/ taker' = Twilio PROVE Accepts(h)'
    BY DEF EventsComeIn
  <2>1. led /\ r \notin crossed /\ h \in Alive /\ h \in known
    BY <1>1, <1>3, <1>4, <1>5, TakersDiffer
  <2>2. /\ hookRow.status = "active" /\ hookRow.url = hookRow.token
        /\ doing[r].read.url = hookRow.url /\ doing[r].read.secret = hookRow.secret
        /\ doing[r].read.known \subseteq hookRow.known
    BY <1>1, <1>2, <1>3, <2>1 DEF HookInv, LedWell, AsItWasRead
  <2>3. CASE h \in doing[r].read.known
    <3>1. Accepts(h)
      BY <2>1, <2>2, <2>3 DEF HookInv, EventsComeIn
    <3>2. QED BY <1>1, <1>4, <2>1, <3>1 DEF Accepts, Verified, SubscriptionKnown
  <2>4. CASE h \in doing[r].made
    BY <1>1, <1>3, <1>4, <2>1, <2>2, <2>4 DEF Accepts, Verified, SubscriptionKnown
  <2>5. QED BY <2>1, <2>3, <2>4 DEF known
<1>10. HooksKnown'
  <2>1. ASSUME r \notin crossed PROVE Alive' \subseteq hookRow'.known \cup strays'
    <3>1. Alive \subseteq hookRow.known \cup strays \cup doing[r].made
      BY <1>1, <1>3, <2>1, KnownByAll, MadeAlone, TakersDiffer
    <3>2. Alive \cap hookRow.known \subseteq doing[r].read.known
      BY <1>1, <1>2, <2>1 DEF AsItWasRead
    <3>3. QED BY <1>4, <1>5, <1>6, <3>1, <3>2 DEF known
  <2>2. QED BY <1>1, <1>5, <1>6, <2>1, KnownStill
<1>11. QED BY <1>6, <1>8, <1>9, <1>10 DEF HookInv

\* Both ends of a disconnection that take the row's token and secret.
LEMMA DisconnectedRow ==
    ASSUME HookInv, NEW known \in SUBSET hookRow.known,
           hookRow' = [hookRow EXCEPT !.status = "disconnected", !.token = 0, !.secret = NoSecret, !.url = 0,
                                      !.known = known]
    PROVE  hookRow' \in HookRows /\ hookRow'.known = known
<1>1. NoSecret \in SecretRows /\ 0 \in HookTokens
  BY HookShapes DEF NoSecret, Secret, SecretRows, HookTokens
<1> DEFINE none == NoSecret
<1>2. none \in SecretRows /\ hookRow \in HookRows
  BY <1>1, HookShapes
<1>3. hookRow' = [hookRow EXCEPT !.status = "disconnected", !.token = 0, !.secret = none, !.url = 0, !.known = known]
  OBVIOUS
<1> HIDE DEF none
<1>4. known \in SUBSET (1..MaxHooks)
  BY <1>2 DEF HookRows
<1>5. 0 \in 0..MaxSetups
  BY <1>1 DEF HookTokens
<1>6. QED BY <1>2, <1>3, <1>4, <1>5 DEF HookRows, SecretRows

LEMMA CommitRemovalStep == ASSUME HookInv, NEW r \in Admins, CommitRemoval(r) PROVE HookInv'
<1> DEFINE known == IF taker = Graph /\ doing[r].read.known # {} THEN {} ELSE hookRow.known
<1>1. /\ doing[r].op = "disconnect" /\ doing[r].step = "save" /\ ~Idles(r) /\ UNCHANGED <<taker, tokens, hooks>>
      /\ Through(r, TRUE) /\ led' = FALSE
  BY DEF CommitRemoval, AtStep, Idles
<1>2. hookRow' = [hookRow EXCEPT !.status = "disconnected", !.token = 0, !.secret = NoSecret, !.url = 0,
                                 !.known = known]
  BY DEF CommitRemoval
<1>3. known \in SUBSET hookRow.known
  OBVIOUS
<1> HIDE DEF known
<1>4. hookRow' \in HookRows /\ hookRow'.known \subseteq hookRow.known
  BY <1>2, <1>3, DisconnectedRow
<1>5. HooksStay /\ Alive' = Alive /\ hookRow'.known \subseteq HookIds'
  BY <1>1, <1>4, HookUnchanged DEF HookInv, WorkKnows, HooksStay
<1>6. /\ HookTypes' /\ WorkApart' /\ WorkKnows' /\ UncrossedAsRead'
      /\ strays \subseteq strays'
      /\ r \in crossed =>
            Alive' \subseteq hookRow'.known \cup strays' \cup UNION {doing'[q].made : q \in Admins}
  BY <1>1, <1>4, <1>5, WorkEnds
<1>7. r \notin crossed /\ taker # Twilio => Alive \subseteq strays
  BY <1>1 DEF HookInv, WorkKnows, KnowsWell, UncrossedAsRead, AsItWasRead
<1>8. HooksKnown'
  BY <1>1, <1>5, <1>6, <1>7, KnownStill
<1>9. QED BY <1>1, <1>6, <1>8 DEF HookInv, LedWell, EventsComeIn

LEMMA RevokeFailsStep == ASSUME HookInv, NEW r \in Admins, RevokeFails(r) PROVE HookInv'
<1>1. /\ ~Idles(r) /\ UNCHANGED <<taker, tokens, hooks>> /\ Through(r, FALSE) /\ led' = FALSE
  BY DEF RevokeFails, AtStep, Idles
<1>2. hookRow' = [hookRow EXCEPT !.status = "disconnected", !.token = 0, !.secret = NoSecret, !.url = 0]
  BY DEF RevokeFails
<1>3. hookRow' = [hookRow EXCEPT !.status = "disconnected", !.token = 0, !.secret = NoSecret, !.url = 0,
                                 !.known = hookRow.known]
  BY <1>2, HookShapes DEF HookRows
<1>4. hookRow' \in HookRows /\ hookRow'.known = hookRow.known
  BY <1>3, DisconnectedRow
<1>5. HooksStay /\ Alive' = Alive /\ hookRow'.known \subseteq HookIds'
  BY <1>1, <1>4, HookUnchanged DEF HookInv, WorkKnows, HooksStay
<1>6. /\ HookTypes' /\ WorkApart' /\ WorkKnows' /\ UncrossedAsRead'
      /\ Alive' \subseteq hookRow'.known \cup strays' \cup UNION {doing'[q].made : q \in Admins}
  BY <1>1, <1>4, <1>5, WorkEnds
<1>7. HooksKnown'
  BY <1>1, <1>5, <1>6, KnownStill
<1>8. QED BY <1>1, <1>6, <1>7 DEF HookInv, LedWell, EventsComeIn

LEMMA RenewOneStep == ASSUME HookInv, NEW r \in Admins, NEW h \in HookIds, RenewOne(r, h) PROVE HookInv'
<1> DEFINE left == doing[r].left \ {h}
           step == IF left = {} THEN "save" ELSE "renew"
           known == doing[r].read.known \ {h}
<1>1. /\ doing[r].op = "renew" /\ doing[r].step = "renew" /\ ~Idles(r) /\ h \in doing[r].left
      /\ UNCHANGED <<taker, hookRow, tokens, strays, led, crossed>>
  BY DEF RenewOne, AtStep, Idles, MovesOn
<1>2. /\ KnowsWell(doing[r]) /\ (r \notin crossed => AsItWasRead(doing[r])) /\ taker = Graph
      /\ doing[r] \in HookWorks /\ doing[r].read \in HookRows
  BY <1>1, HookShapes DEF HookInv, WorkKnows, UncrossedAsRead, KnowsWell
<1>3. left \in HookSets /\ left \subseteq HookIds /\ step \in {"renew", "save"} /\ known \subseteq HookNumbers /\ known \subseteq HookIds
  BY <1>2, HookShapes DEF HookWorks, HookSets, KnowsWell
<1>4. taker # Stripe /\ taker # Twilio
  BY <1>2, TakersDiffer
<1>5. CASE hooks[h].alive
  <2> DEFINE later == [doing[r] EXCEPT !.step = step, !.left = left]
  <2>1. UNCHANGED hooks /\ doing' = [doing EXCEPT ![r].step = step, ![r].left = left, ![r].made = doing[r].made]
    BY <1>5 DEF RenewOne, MovesOn
  <2> HIDE DEF step, left
  <2>2. doing' = [doing EXCEPT ![r] = later]
    <3>1. [doing[r] EXCEPT !.step = step, !.left = left, !.made = doing[r].made] = later
      BY <1>2, <1>3 DEF HookWorks
    <3>2. doing' = [doing EXCEPT ![r] = [doing[r] EXCEPT !.step = step, !.left = left, !.made = doing[r].made]]
      BY <2>1, HookShapes
    <3>3. QED BY <3>1, <3>2
  <2>3. /\ later \in HookWorks /\ later.op = "renew" /\ later.step = step /\ later.left = left
        /\ later.read = doing[r].read /\ later.made = doing[r].made
    BY <1>1, <1>2, <1>3 DEF HookWorks
  <2> HIDE DEF later
  <2> PICK d \in HookWorks : d = later
    BY <2>3
  <2>4. /\ d.op = doing[r].op /\ d.op = "renew" /\ d.step \in {"renew", "save"} /\ d.left \subseteq HookIds
        /\ d.read = doing[r].read /\ d.made = doing[r].made /\ doing' = [doing EXCEPT ![r] = d]
    BY <1>1, <1>3, <2>2, <2>3
  <2>5. HooksStay /\ Alive' = Alive /\ HookIds' = HookIds
    BY <2>1, HookUnchanged DEF HookIds
  <2>6. KnowsWell(d)'
    <3>1. KnowsWell(d)
      BY <1>2, <2>4 DEF KnowsWell
    <3>2. QED BY <1>1, <2>5, <3>1, KnowingStays
  <2>7. r \notin crossed => AsItWasRead(d)'
    BY <1>1, <1>2, <2>4, <2>5 DEF AsItWasRead
  <2>8. /\ hookRow' \in HookRows /\ hookRow'.known \subseteq HookIds' /\ strays' \subseteq HookNumbers
        /\ led' \in BOOLEAN
    BY <1>1, <2>5, HookShapes DEF HookInv, WorkKnows
  <2>9. HookTypes' /\ WorkApart' /\ WorkKnows' /\ UncrossedAsRead'
    BY <1>1, <2>4, <2>5, <2>6, <2>7, <2>8, WorkGoesOn
  <2>10. \A q \in Admins : doing'[q].op = doing[q].op /\ doing'[q].made = doing[q].made
    BY <2>4, HookShapes
  <2>11. LedWell' /\ EventsComeIn' /\ HooksKnown'
    BY <1>1, <2>5, <2>10, LedStays, EventsStill, KnownStill, KnownByAll
  <2>12. QED BY <2>9, <2>11 DEF HookInv
<1>6. CASE ~hooks[h].alive
  <2>1. /\ Makes(doing[r].read.url, doing[r].read.secret)
        /\ doing' = [doing EXCEPT ![r].step = step, ![r].left = left,
                                  ![r].made = doing[r].made \cup {Len(hooks')}, ![r].read.known = known]
    BY <1>6 DEF RenewOne
  <2>2. doing[r].read.url \in HookTokens /\ doing[r].read.secret \in SecretRows
    BY <1>2 DEF HookRows, HookTokens, SecretRows
  <2>3. Len(hooks') = Len(hooks) + 1
    BY <2>1, <2>2, HookComes
  <2> PICK n \in Nat : n = Len(hooks')
    BY <2>3, HookShapes
  <2>4. /\ HooksStay /\ n \notin HookIds /\ HookIds' = HookIds \cup {n}
        /\ hooks'[n].address = doing[r].read.url /\ hooks'[n].secret = doing[r].read.secret
        /\ Alive' = Alive \cup {n}
    BY <1>4, <2>1, <2>2, HookComes
  <2>5. HookIds' \subseteq HookNumbers
    BY <2>4, HookShapes DEF HooksStay, HookIds, HookNumbers
  <2> DEFINE read == [doing[r].read EXCEPT !.known = known]
             madeNow == doing[r].made \cup {n}
             later == [doing[r] EXCEPT !.step = step, !.left = left, !.made = madeNow, !.read = read]
  <2>6. madeNow \in HookSets
    BY <1>2, <2>4, <2>5 DEF HookWorks, HookSets
  <2> HIDE DEF step, left, known, madeNow
  <2>7. /\ read \in HookRows /\ read.known = known /\ read.status = doing[r].read.status
        /\ read.token = doing[r].read.token /\ read.secret = doing[r].read.secret /\ read.url = doing[r].read.url
    BY <1>2, <1>3 DEF HookRows, HookNumbers
  <2>8. doing' = [doing EXCEPT ![r] = later]
    <3>1. madeNow = doing[r].made \cup {Len(hooks')}
      BY DEF madeNow
    <3>2. doing' = [doing EXCEPT ![r].step = step, ![r].left = left, ![r].made = madeNow, ![r].read.known = known]
      BY <2>1, <3>1
    <3>3. QED BY <3>2, HookShapes DEF HookWorks
  <2> HIDE DEF read
  <2>9. /\ later \in HookWorks /\ later.op = "renew" /\ later.step = step /\ later.left = left
        /\ later.read = read /\ later.made = madeNow
    BY <1>1, <1>2, <1>3, <2>6, <2>7 DEF HookWorks
  <2> HIDE DEF later
  <2> PICK d \in HookWorks : d = later
    BY <2>9
  <2>10. /\ d.op = doing[r].op /\ d.op = "renew" /\ d.step \in {"renew", "save"} /\ d.left \subseteq HookIds
         /\ d.read.known = doing[r].read.known \ {h} /\ d.read.status = doing[r].read.status
         /\ d.read.token = doing[r].read.token /\ d.read.secret = doing[r].read.secret
         /\ d.read.url = doing[r].read.url
         /\ d.made = doing[r].made \cup {n} /\ doing' = [doing EXCEPT ![r] = d]
    BY <1>1, <1>3, <2>7, <2>8, <2>9 DEF known, madeNow
  <2>11. KnowsWell(d)'
    <3>1. d.read.known \cup d.left \cup d.made \subseteq HookIds'
      BY <1>2, <2>4, <2>10 DEF KnowsWell
    <3>2. \A k \in d.made : hooks'[k].address = d.read.url /\ hooks'[k].secret = d.read.secret
      BY <1>1, <1>2, <2>4, <2>10 DEF KnowsWell, HooksStay
    <3>3. QED BY <1>1, <1>2, <2>10, <3>1, <3>2 DEF KnowsWell
  <2>12. r \notin crossed => AsItWasRead(d)'
    <3> SUFFICES ASSUME r \notin crossed PROVE AsItWasRead(d)'
      OBVIOUS
    <3>1. h \notin Alive /\ hookRow.known \subseteq HookIds
      BY <1>6 DEF Alive, HookInv, WorkKnows
    <3>2. d.read.known \subseteq hookRow.known /\ Alive' \cap hookRow'.known \subseteq d.read.known
      BY <1>1, <1>2, <2>4, <2>10, <3>1 DEF AsItWasRead
    <3>3. QED BY <1>1, <1>2, <2>10, <3>2 DEF AsItWasRead
  <2>13. /\ hookRow' \in HookRows /\ hookRow'.known \subseteq HookIds' /\ strays' \subseteq HookNumbers
         /\ led' \in BOOLEAN
    BY <1>1, <2>4, HookShapes DEF HookInv, WorkKnows
  <2>14. HookTypes' /\ WorkApart' /\ WorkKnows' /\ UncrossedAsRead'
    BY <1>1, <2>4, <2>10, <2>11, <2>12, <2>13, WorkGoesOn
  <2>15. /\ \A q \in Admins : doing'[q].op = doing[q].op /\ doing[q].made \subseteq doing'[q].made
         /\ n \in doing'[r].made
    BY <2>10, HookShapes
  <2>16. LedWell' /\ EventsComeIn'
    <3>1. Alive' \cap HookIds \subseteq Alive
      BY <2>4
    <3>2. QED BY <1>1, <1>4, <2>4, <2>15, <3>1, LedStays, EventsStill
  <2>17. HooksKnown'
    <3>1. \A q \in Admins : doing[q].made \subseteq doing'[q].made
      BY <2>15
    <3>2. n \in UNION {doing'[q].made : q \in Admins}
      BY <2>15
    <3>3. Alive' \subseteq hookRow.known \cup strays \cup UNION {doing'[q].made : q \in Admins}
      BY <1>4, <2>4, <3>1, <3>2, KnownByAll
    <3>4. QED BY <1>1, <1>4, <3>3 DEF HooksKnown
  <2>18. QED BY <2>14, <2>16, <2>17 DEF HookInv
<1>7. QED BY <1>5, <1>6

LEMMA HookInvInit == HooksInit => HookInv
<1> SUFFICES ASSUME HooksInit PROVE HookInv
  OBVIOUS
<1>1. /\ taker \in Takers /\ hookRow = BareRow /\ tokens = 0 /\ doing = [r \in Admins |-> NoWork] /\ hooks = << >>
      /\ crossed = {} /\ strays = {} /\ led = FALSE
  BY DEF HooksInit
<1>2. HookIds = {} /\ Alive = {} /\ Len(hooks) = 0
  BY <1>1 DEF HookIds, Alive
<1>3. 0 \in HookTokens /\ MaxHooks \in Nat
  BY WebhookSetupAssumption DEF HookTokens
<1>4. BareRow \in HookRows /\ BareRow.known = {}
  BY <1>3 DEF BareRow, HookRows, NoSecret, Secret, HookTokens
<1>5. NoWork \in HookWorks
  BY <1>4 DEF NoWork, HookWorks, HookSets
<1>6. HookTypes
  <2>1. hooks \in Seq(HookEntries) /\ Len(hooks) <= MaxHooks
    BY <1>1, <1>2, <1>3
  <2>2. doing \in [Admins -> HookWorks]
    BY <1>1, <1>5
  <2>3. QED BY <1>1, <1>3, <1>4, <2>1, <2>2, HookTypesFrom
<1>7. WorkApart /\ UncrossedAsRead
  BY <1>1 DEF WorkApart, UncrossedAsRead, Idles, NoWork
<1>8. WorkKnows
  BY <1>1, <1>2, <1>4 DEF WorkKnows, KnowsWell, NoWork
<1>9. HooksKnown
  BY <1>2, FS_EmptySet DEF HooksKnown
<1>10. QED BY <1>1, <1>6, <1>7, <1>8, <1>9 DEF HookInv, LedWell, EventsComeIn

LEMMA HookInvStep == HookInv /\ [HooksNext]_hookVars => HookInv'
<1> SUFFICES ASSUME HookInv, [HooksNext]_hookVars PROVE HookInv'
  OBVIOUS
<1>1. ASSUME NEW r \in Admins, NEW registering \in BOOLEAN, Enable(r, registering) PROVE HookInv'
  BY <1>1, EnableStep
<1>2. ASSUME NEW r \in Admins, NEW h \in HookIds, RemoveHook(r, h) \/ RenewOne(r, h) PROVE HookInv'
  BY <1>2, RemoveHookStep, RenewOneStep
<1>3. ASSUME NEW r \in Admins, MakeHook(r) \/ SaveHook(r) \/ AnswerLost(r) \/ SetupFails(r) PROVE HookInv'
  BY <1>3, MakeHookStep, SaveHookStep, AnswerLostStep, SetupFailsStep
<1>4. ASSUME NEW r \in Admins, OpenConfig(r) \/ SaveConfig(r) \/ BeginRenewal(r) \/ SaveRenewal(r) PROVE HookInv'
  BY <1>4, OpenConfigStep, SaveConfigStep, BeginRenewalStep, SaveRenewalStep
<1>5. ASSUME NEW r \in Admins, BeginRemoval(r) \/ CommitRemoval(r) \/ RevokeFails(r) \/ GoAway(r) PROVE HookInv'
  BY <1>5, BeginRemovalStep, CommitRemovalStep, RevokeFailsStep, GoAwayStep
<1>6. ASSUME NEW h \in HookIds, Lapse(h) PROVE HookInv'
  BY <1>6, LapseStep
<1>7. CASE UNCHANGED hookVars
  BY <1>7 DEF hookVars, hookGhosts, HookInv, HookTypes, HooksTypeOK, WorkApart, WorkKnows, KnowsWell,
              UncrossedAsRead, AsItWasRead, LedWell, HooksKnown, EventsComeIn, Accepts, Verified,
              SubscriptionKnown, Alive, HookIds, Idles
<1>8. QED BY <1>1, <1>2, <1>3, <1>4, <1>5, <1>6, <1>7 DEF HooksNext

LEMMA HookInvKeeps == HookInv => HooksInOrder
<1> SUFFICES ASSUME HookInv PROVE HooksInOrder
  OBVIOUS
<1>1. ASSUME NEW r \in Admins, AtStep(r, "disconnect", "save"), r \notin crossed, taker # Twilio
      PROVE  Alive \subseteq strays
  BY <1>1 DEF HookInv, AtStep, Idles, WorkKnows, KnowsWell, UncrossedAsRead, AsItWasRead
<1>2. QED BY <1>1 DEF HooksInOrder, NoneLeft, HookInv

\* A webhook is there as long as it is wanted, and no longer: those at the provider are known
\* to the row or to work under way, or were left by what failed or was crossed; once an
\* address was registered and nothing crossed it the provider's events are accepted; and a
\* disconnection that nothing crossed leaves none (connection_webhooks, register_webhook,
\* renew_subscriptions, disconnect).
THEOREM HooksStayInOrder == HooksSpec => []HooksInOrder
<1>1. QED BY HookInvInit, HookInvStep, HookInvKeeps, PTL DEF HooksSpec
=============================================================================
