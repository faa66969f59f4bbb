------------------------------- MODULE Imports -------------------------------
(***************************************************************************)
(* Contacts and matters imported from spreadsheets and from another        *)
(* practice system (crm/imports/spreadsheet.py, migration.py, views.py,    *)
(* connectors/clio): a file, or a fetch that reads the other system list   *)
(* by list, becomes an import, staff confirm or discard it, and            *)
(* confirming plans every row against the CRM and the rows before it and   *)
(* saves what the plan accepts in one transaction.                         *)
(***************************************************************************)
EXTENDS Naturals, FiniteSets, SequencesExt

CONSTANTS
    Keys,        \* email addresses and phone numbers
    Emails,      \* those that are email addresses
    Clients,     \* contacts in the other system
    OldMatters,  \* matters in the other system
    Receipts,    \* receipt numbers on the rows of spreadsheets
    MaxImports,  \* bound on the imports made
    MaxSheets,   \* bound on the spreadsheets among them
    MaxPeople    \* bound on the contacts of the CRM

ASSUME ImportsAssumption ==
    /\ MaxImports \in Nat /\ MaxSheets \in Nat /\ MaxPeople \in Nat \ {0}
    /\ IsFiniteSet(Clients) /\ IsFiniteSet(OldMatters)
    /\ "none" \notin Clients \cup OldMatters \cup Receipts
    /\ OldMatters \cap Receipts = {} /\ Emails \subseteq Keys

VARIABLES
    provider,  \* the other system: each contact's keys, which are companies, each matter's
               \* client and other contacts, and what is there yet
    people,    \* the CRM's contacts: a number and keys
    links,     \* ExternalRef: the contact each client is linked to (0: none)
    cases,     \* the CRM's matters from imports: which, whose, from which import
    parties,   \* the other contacts of those matters
    upload,    \* each import: its status, where from, its rows
    fetched,   \* a fetch: how far it is, what it has read, its rows
    saving,    \* each import being saved: its plan, not committed
    leaving,   \* each import whose discarding has looked at its status
    beside     \* two imports were saved, or one saved and discarded, at once

importVars == <<provider, people, links, cases, parties, upload, fetched, saving, leaving, beside>>

Ids == 1..MaxImports
Row == [keys : SUBSET Keys, client : Clients \cup {"none"},
        case : OldMatters \cup Receipts \cup {"none"}, parties : SUBSET Clients, skip : BOOLEAN]
People == [n : 1..MaxPeople, keys : SUBSET Keys]
Parties == [case : OldMatters, of : 1..MaxPeople]
Cases == [case : OldMatters \cup Receipts, of : 1..MaxPeople, by : Ids]
NoImport == [status |-> "none", sheet |-> TRUE, rows |-> <<>>]
NotFetching == [step |-> "none", contacts |-> {}, parties |-> {}, matters |-> {}, rows |-> <<>>]
NoPlan == [on |-> FALSE, people |-> {}, cases |-> {}, links |-> [c \in Clients |-> 0],
           byRef |-> [c \in Clients |-> 0]]

ImportsTypeOK ==
    /\ provider \in [keys : [Clients -> SUBSET Keys], companies : SUBSET Clients,
                     client : [OldMatters -> Clients], parties : [OldMatters -> SUBSET Clients],
                     contacts : SUBSET Clients, there : SUBSET OldMatters]
    /\ people \subseteq People
    /\ links \in [Clients -> 0..MaxPeople]
    /\ cases \subseteq Cases /\ parties \subseteq Parties
    /\ fetched.step \in {"none", "contacts", "relationships", "read", "built"}
    /\ fetched.contacts \subseteq Clients /\ fetched.parties \subseteq OldMatters \X Clients
    /\ fetched.matters \subseteq OldMatters
    /\ \A i \in Ids :
          /\ upload[i].status \in {"none", "preparing", "imported", "gone"}
          /\ upload[i].sheet \in BOOLEAN
          /\ \A k \in DOMAIN upload[i].rows : upload[i].rows[k] \in Row
          /\ saving[i].on \in BOOLEAN
          /\ saving[i].people \subseteq People /\ saving[i].cases \subseteq Cases
    /\ leaving \subseteq Ids
    /\ beside \in BOOLEAN

----------------------------------------------------------------------------
Saving == {i \in Ids : saving[i].on}
Used == {i \in Ids : upload[i].status # "none"}
NextId == Cardinality(Used) + 1
MoreIds == NextId \in Ids

\* import_list: a file is uploaded.
Upload(rows) ==
    /\ MoreIds
    /\ Cardinality({i \in Used : upload[i].sheet}) < MaxSheets
    /\ upload' = [upload EXCEPT ![NextId] =
                      [status |-> "preparing", sheet |-> TRUE, rows |-> rows]]
    /\ UNCHANGED <<provider, people, links, cases, parties, fetched, saving, leaving, beside>>

\* The other system gets another contact, or another matter of a contact it has.
NewContact(c) ==
    /\ c \notin provider.contacts
    /\ provider' = [provider EXCEPT !.contacts = @ \cup {c}]
    /\ UNCHANGED <<people, links, cases, parties, upload, fetched, saving, leaving, beside>>

NewMatter(m) ==
    /\ m \notin provider.there /\ provider.client[m] \in provider.contacts
    /\ provider' = [provider EXCEPT !.there = @ \cup {m}]
    /\ UNCHANGED <<people, links, cases, parties, upload, fetched, saving, leaving, beside>>

\* A fetch reads every contact, then the other contacts of each matter, then every matter.
\* A matter without a client is left out; Clio requires one.
ListContacts ==
    /\ fetched = NotFetching
    /\ fetched' = [NotFetching EXCEPT !.step = "contacts", !.contacts = provider.contacts]
    /\ UNCHANGED <<provider, people, links, cases, parties, upload, saving, leaving, beside>>

ListRelationships ==
    /\ fetched.step = "contacts"
    /\ fetched' = [fetched EXCEPT
          !.step = "relationships",
          !.parties = {mc \in provider.there \X provider.contacts :
                          mc[2] \in provider.parties[mc[1]]}]
    /\ UNCHANGED <<provider, people, links, cases, parties, upload, saving, leaving, beside>>

ListMatters ==
    /\ fetched.step = "relationships"
    /\ fetched' = [fetched EXCEPT !.step = "read", !.matters = provider.there]
    /\ UNCHANGED <<provider, people, links, cases, parties, upload, saving, leaving, beside>>

\* A page cannot be read, or points elsewhere: nothing of the fetch is kept.
FetchFails ==
    /\ fetched.step \in {"contacts", "relationships"}
    /\ fetched' = NotFetching
    /\ UNCHANGED <<provider, people, links, cases, parties, upload, saving, leaving, beside>>

ImportedBefore == {c.case : c \in cases} \cap OldMatters

\* What is kept of a contact: a company or a person; of a matter: its client and the other
\* contacts the fetch had read for it.
IsCompany(c) == c \in provider.companies
MatterRecord(m) ==
    [client |-> provider.client[m], parties |-> {p \in Clients : <<m, p>> \in fetched.parties}]

\* A row with an email or phone of its contact; what it is of, and may never be imported:
\* companies, and a matter whose client the fetch had read too early.
CellsOf(c) == IF c \in fetched.contacts /\ ~IsCompany(c) THEN provider.keys[c] ELSE {}
MatterRow(m) ==
    LET c == MatterRecord(m).client IN
    [keys |-> CellsOf(c), client |-> c, case |-> m, parties |-> MatterRecord(m).parties,
     skip |-> c \notin fetched.contacts \/ IsCompany(c)]
ContactRow(c) ==
    [keys |-> CellsOf(c), client |-> c, case |-> "none", parties |-> {}, skip |-> IsCompany(c)]

\* build_import: a row for each matter not imported yet, with its client, and one for each
\* other client not linked yet.
RowsFor ==
    LET new == fetched.matters \ ImportedBefore
        clients == {MatterRecord(m).client : m \in new}
        others == {c \in fetched.contacts : links[c] = 0} \ clients
    IN  SetToSeq({MatterRow(m) : m \in new}) \o SetToSeq({ContactRow(c) : c \in others})

\* Only rows that can never be imported make no import.
Fetch ==
    /\ fetched.step = "read"
    /\ fetched' = IF \E k \in DOMAIN RowsFor : ~RowsFor[k].skip
                  THEN [NotFetching EXCEPT !.step = "built", !.rows = RowsFor] ELSE NotFetching
    /\ UNCHANGED <<provider, people, links, cases, parties, upload, saving, leaving, beside>>

\* The newer fetch replaces one that was never confirmed; the row of one being saved is
\* locked until then.
StoreFetch ==
    /\ fetched.step = "built" /\ MoreIds
    /\ \A i \in Saving : upload[i].sheet
    /\ upload' = [i \in Ids |->
          IF i = NextId THEN [status |-> "preparing", sheet |-> FALSE, rows |-> fetched.rows]
          ELSE IF upload[i].status = "preparing" /\ ~upload[i].sheet
               THEN [upload[i] EXCEPT !.status = "gone", !.rows = <<>>] ELSE upload[i]]
    /\ fetched' = NotFetching
    /\ UNCHANGED <<provider, people, links, cases, parties, saving, leaving, beside>>

----------------------------------------------------------------------------
\* Planner.plan_row.  A plan holds the contacts and matters to add, the contact each
\* client's rows were found to mean, and the links to make.
Shares(keys, folk) == {p \in folk : p.keys \cap keys # {}}
NextNumber(plan) == Cardinality(people) + Cardinality(plan.people) + 1

\* Slip: the rows before this one are not looked at.
EarlierMissed(plan, row) == {}

\* Rows before this one that add its contact: by the other system's id, or email, or phone.
Earlier(plan, row) ==
    LET byRef == {p \in plan.people : row.client # "none" /\ p.n = plan.byRef[row.client]}
        byEmail == Shares(row.keys \cap Emails, plan.people)
    IN  IF byRef # {} THEN byRef
        ELSE IF byEmail # {} THEN byEmail ELSE Shares(row.keys, plan.people)

\* The contact the other system's id is known to mean.
Linked(plan, row) ==
    IF row.client = "none" THEN {}
    ELSE {p \in people : p.n = (IF plan.byRef[row.client] # 0 THEN plan.byRef[row.client]
                                ELSE links[row.client])}

Here(plan, row) ==
    /\ row.case # "none"
    /\ \/ \E c \in cases : c.case = row.case
       \/ row.case \in Receipts /\ \E c \in plan.cases : c.case = row.case

PlanRow(i, plan, row) ==
    LET known == IF Linked(plan, row) # {} THEN Linked(plan, row) ELSE Shares(row.keys, people)
        found == IF Earlier(plan, row) # {} THEN Earlier(plan, row) ELSE known
        n == IF found = {} THEN NextNumber(plan) ELSE (CHOOSE p \in found : TRUE).n
        fresh == IF found = {} THEN {[n |-> n, keys |-> row.keys]} ELSE {}
        remembered == Earlier(plan, row) = {}
    IN  CASE row.skip \/ Here(plan, row) -> plan
          [] Earlier(plan, row) = {} /\ Cardinality(known) > 1 -> plan
          [] found # {} /\ row.case = "none" /\ row.client = "none" -> plan
          [] OTHER ->
               [plan EXCEPT
                  !.people = @ \cup fresh,
                  !.cases = @ \cup (IF row.case = "none" THEN {}
                                    ELSE {[case |-> row.case, of |-> n, by |-> i]}),
                  !.links = IF row.client = "none" THEN @ ELSE [@ EXCEPT ![row.client] = n],
                  !.byRef = IF row.client = "none" \/ ~remembered THEN @
                            ELSE [@ EXCEPT ![row.client] = n]]

\* Planner.plan: one row after the other.
PlanOf(i) ==
    LET rows == upload[i].rows
        upTo[k \in 0..Len(rows)] ==
            IF k = 0 THEN [NoPlan EXCEPT !.on = TRUE, !.links = links]
            ELSE PlanRow(i, upTo[k - 1], rows[k])
    IN  upTo[Len(rows)]

\* run_import locks the import and looks at its status again.
Confirm(i) ==
    /\ upload[i].status = "preparing" /\ ~saving[i].on
    /\ LET plan == PlanOf(i) IN
       /\ \A p \in plan.people : p.n <= MaxPeople
       /\ saving' = [saving EXCEPT ![i] = plan]
    /\ beside' = (beside \/ Saving # {} \/ i \in leaving)
    /\ UNCHANGED <<provider, people, links, cases, parties, upload, fetched, leaving>>

\* Contacts another import has added meanwhile have numbers of their own.
Renumbered(plan, n) ==
    IF \E p \in plan.people : p.n = n
    THEN Cardinality(people) + Cardinality({p \in plan.people : p.n <= n}) ELSE n

\* Slip: the other contacts are those that earlier imports have linked.
PartiesTooSoon(rows, new, known) ==
    {q \in Parties :
        \E c \in new, k \in DOMAIN rows, p \in Clients :
            /\ rows[k].case = c.case /\ p \in rows[k].parties
            /\ links[p] \notin {0, c.of}
            /\ q = [case |-> c.case, of |-> links[p]]}

\* add_parties: when every row is saved, a new matter gets the other contacts of its row
\* who are linked by then, but not its client.
AddedParties(rows, new, known) ==
    {q \in Parties :
        \E c \in new, k \in DOMAIN rows, p \in Clients :
            /\ rows[k].case = c.case /\ p \in rows[k].parties
            /\ known[p] \notin {0, c.of}
            /\ q = [case |-> c.case, of |-> known[p]]}

CommitImport(i) ==
    LET plan == saving[i]
        New(n) == Renumbered(plan, n)
        LinkOf(c) == IF plan.links[c] = NoPlan.links[c] THEN links[c] ELSE New(plan.links[c])
    IN  /\ saving[i].on
        /\ Cardinality(people) + Cardinality(plan.people) <= MaxPeople
        /\ people' = people \cup {[p EXCEPT !.n = New(p.n)] : p \in plan.people}
        /\ cases' = cases \cup {[c EXCEPT !.of = New(c.of)] : c \in plan.cases}
        /\ links' = [c \in Clients |-> LinkOf(c)]
        /\ parties' = parties \cup AddedParties(upload[i].rows, cases' \ cases, links')
        /\ upload' = [upload EXCEPT ![i].status = "imported"]
        /\ saving' = [saving EXCEPT ![i] = NoPlan]
        /\ UNCHANGED <<provider, fetched, leaving, beside>>

\* A row cannot be saved, or the process goes away: the transaction rolls back.
RollBack(i) ==
    /\ saving[i].on
    /\ saving' = [saving EXCEPT ![i] = NoPlan]
    /\ UNCHANGED <<provider, people, links, cases, parties, upload, fetched, leaving, beside>>

\* import_discard looks at the status, and then deletes; purge_uploads deletes at once.
LookToDiscard(i) ==
    /\ upload[i].status = "preparing" /\ i \notin leaving
    /\ leaving' = leaving \cup {i}
    /\ beside' = (beside \/ saving[i].on)
    /\ UNCHANGED <<provider, people, links, cases, parties, upload, fetched, saving>>

Discard(i) ==
    /\ i \in leaving /\ ~saving[i].on
    /\ leaving' = leaving \ {i}
    /\ upload' = [upload EXCEPT ![i].status = "gone", ![i].rows = <<>>]
    /\ UNCHANGED <<provider, people, links, cases, parties, fetched, saving, beside>>

Purge(i) ==
    /\ upload[i].status = "preparing" /\ ~saving[i].on
    /\ upload' = [upload EXCEPT ![i].status = "gone", ![i].rows = <<>>]
    /\ UNCHANGED <<provider, people, links, cases, parties, fetched, saving, leaving, beside>>

----------------------------------------------------------------------------
SheetRows ==
    [keys : (SUBSET Keys) \ {{}}, client : {"none"}, case : Receipts \cup {"none"},
     parties : {{}}, skip : {FALSE}]

ImportsInit ==
    /\ provider \in [keys : [Clients -> SUBSET Keys], companies : SUBSET Clients,
                     client : [OldMatters -> Clients], parties : [OldMatters -> SUBSET Clients],
                     contacts : SUBSET Clients, there : {{}, OldMatters}]
    /\ people \in {{}} \cup {{[n |-> 1, keys |-> k]} : k \in (SUBSET Keys) \ {{}}}
    /\ links = [c \in Clients |-> 0]
    /\ cases = {} /\ parties = {} /\ leaving = {}
    /\ fetched = NotFetching
    /\ upload = [i \in Ids |-> NoImport]
    /\ saving = [i \in Ids |-> NoPlan]
    /\ beside = FALSE

FetchNext == ListContacts \/ ListRelationships \/ ListMatters \/ FetchFails \/ Fetch \/ StoreFetch

ReviewNext ==
    \E i \in Ids :
        \/ Confirm(i) \/ CommitImport(i) \/ RollBack(i)
        \/ LookToDiscard(i) \/ Discard(i) \/ Purge(i)

\* Files beside fetches, of a system that stays as it is; or fetches alone, while it changes.
ImportsNext ==
    \/ \E r, s \in SheetRows : Upload(<<r, s>>)
    \/ FetchNext \/ ReviewNext

MigrationNext ==
    \/ \E c \in Clients : NewContact(c)
    \/ \E m \in OldMatters : NewMatter(m)
    \/ FetchNext \/ ReviewNext

ImportsSpec == ImportsInit /\ [][ImportsNext \/ MigrationNext]_importVars

----------------------------------------------------------------------------
\* Unless two imports are saved at once, no import adds a contact who is in the CRM by
\* email or phone, whichever row, file or fetch names them first (Planner.plan_row).
NoSecondContact ==
    ~beside => \A p, q \in people : p.keys \cap q.keys # {} => p = q

\* A contact is a client of the other system by email or phone, if these are known; and
\* one contact at most is.
Means(p, c) == provider.keys[c] = {} \/ p.keys \cap provider.keys[c] # {}
OneHas(keys) == \A p, q \in Shares(keys, people) : p = q

\* Unless an import is saved beside another or its own discarding, each matter of the other
\* system, and each receipt number, is imported once, by an import that says so, and a
\* fetched matter is its client's: of a contact with the client's email or phone, and of
\* the one who is linked, unless one has the email and another the phone (build_import,
\* run_import, import_discard).
MatterImportedOnce ==
    ~beside =>
        /\ \A c, d \in cases : c.case = d.case => c = d
        /\ \A c \in cases : upload[c.by].status = "imported"
        /\ \A m \in OldMatters : \A c \in cases : c.case = m =>
              /\ \E p \in people : p.n = c.of /\ Means(p, provider.client[m])
              /\ OneHas(provider.keys[provider.client[m]]) => links[provider.client[m]] = c.of

\* The contact was in an import that was saved no later than this one.
LinkedBy(c, i) ==
    \E j \in 1..i : /\ upload[j].status = "imported"
                    /\ \E k \in DOMAIN upload[j].rows :
                          upload[j].rows[k].client = c /\ ~upload[j].rows[k].skip

\* Unless imports are saved at once, who is linked is that contact by email or phone, and
\* never a company; and a fetched matter has those of its other contacts as parties whom
\* its fetch had read, and its import or an earlier one has linked, whichever row comes
\* first, and nobody else, as far as one contact has their email and phone (build_import,
\* add_parties).
RightPeople ==
    ~beside =>
        /\ \A c \in Clients : links[c] # 0 =>
              c \notin provider.companies /\ \E p \in people : p.n = links[c] /\ Means(p, c)
        /\ \A q \in parties : \E c \in cases, p \in provider.parties[q.case] :
              /\ c.case = q.case /\ q.of # c.of
              /\ \E x \in people : x.n = q.of /\ Means(x, p)
              /\ OneHas(provider.keys[p]) => links[p] = q.of
        /\ \A c \in cases : \A k \in DOMAIN upload[c.by].rows : \A p \in Clients :
              /\ upload[c.by].rows[k].case = c.case /\ p \in upload[c.by].rows[k].parties
              /\ links[p] \notin {0, c.of} /\ LinkedBy(p, c.by) /\ OneHas(provider.keys[p])
              => [case |-> c.case, of |-> links[p]] \in parties

\* An import brings every person and matter once (spreadsheet.py, migration.py).
ImportedOnce == NoSecondContact /\ MatterImportedOnce /\ RightPeople
=============================================================================
