------------------------------- MODULE Drafts --------------------------------
(***************************************************************************)
(* Invoices before they are paid (crm/billing/services.py, views.py):      *)
(* draft lines, tracked time put on them, issuing with the next number,    *)
(* deleting a draft, the notes of an invoice and the billing settings,     *)
(* which also keep the number sequence.  Every request works from what it  *)
(* read; only issuing locks and looks again.  What happens to an invoice   *)
(* once payments arrive is in InvoiceLedger.                               *)
(***************************************************************************)
EXTENDS Naturals, FiniteSets

CONSTANTS
    Invoices,   \* the invoices that may be made
    Entries,    \* stopped time entries of their matter
    Billers,    \* requests of billing staff
    MaxNumber   \* bound on the sequence

ASSUME DraftsAssumption == MaxNumber \in Nat /\ "typed" \notin Entries

VARIABLES
    invoice,   \* each invoice's status, number (0: none) and lines
    sequence,  \* BillingSettings.invoice_sequence_value
    biller,    \* what each request is doing, and what it read
    stale      \* a request has saved over what changed since it read it

draftVars == <<invoice, sequence, biller, stale>>

Lines == Entries \cup {"typed"}
NoInvoice == [status |-> "none", number |-> 0, lines |-> {}]
AtRest == [job |-> "idle", on |-> "none", status |-> "none", number |-> 0, line |-> "none"]
Jobs == {"line", "time", "drop", "issue", "delete", "notes"}

DraftsTypeOK ==
    /\ invoice \in [Invoices -> [status : {"none", "draft", "issued"},
                                 number : 0..MaxNumber, lines : SUBSET Lines]]
    /\ sequence \in 0..MaxNumber
    /\ biller \in [Billers -> [job : Jobs \cup {"idle", "settings"},
                               on : Invoices \cup {"none"},
                               status : {"none", "draft", "issued"},
                               number : 0..MaxNumber, line : Lines \cup {"none"}]]
    /\ stale \in BOOLEAN

----------------------------------------------------------------------------
Billed(e) == \E i \in Invoices : e \in invoice[i].lines
Done(r) == biller' = [biller EXCEPT ![r] = AtRest]
SeenAs(r, i) == biller[r].status = invoice[i].status /\ biller[r].number = invoice[i].number

\* invoice_create
CreateDraft(i) ==
    /\ invoice[i] = NoInvoice
    /\ \A r \in Billers : biller[r].on # i
    /\ invoice' = [invoice EXCEPT ![i].status = "draft"]
    /\ UNCHANGED <<sequence, biller, stale>>

\* Every view reads the invoice; draft_or_redirect and require_draft let only a draft's
\* lines be changed.  Time is chosen among what is on no invoice yet.
ReadInvoice(r, job, i, l) ==
    /\ biller[r] = AtRest
    /\ invoice[i].status # "none"
    /\ job \in {"line", "time", "drop", "delete"} => invoice[i].status = "draft"
    /\ CASE job = "line" -> l = "typed"
         [] job = "time" -> l \in Entries /\ ~Billed(l)
         [] job = "drop" -> l \in invoice[i].lines
         [] OTHER -> l = "typed"
    /\ biller' = [biller EXCEPT ![r] = [job |-> job, on |-> i, line |-> l,
                      status |-> invoice[i].status, number |-> invoice[i].number]]
    /\ UNCHANGED <<invoice, sequence, stale>>

\* add_line and add_time_to_invoice: the one-to-one field refuses time billed meanwhile.
AddLine(r) ==
    LET i == biller[r].on IN
    /\ biller[r].job \in {"line", "time"}
    /\ biller[r].job = "time" => ~Billed(biller[r].line)
    /\ invoice[i].status # "none"
    /\ invoice' = [invoice EXCEPT ![i].lines = @ \cup {biller[r].line}]
    /\ stale' = (stale \/ ~SeenAs(r, i))
    /\ Done(r)
    /\ UNCHANGED sequence

\* invoice_line_delete
DropLine(r) ==
    LET i == biller[r].on IN
    /\ biller[r].job = "drop"
    /\ biller[r].line \in invoice[i].lines
    /\ invoice' = [invoice EXCEPT ![i].lines = @ \ {biller[r].line}]
    /\ stale' = (stale \/ ~SeenAs(r, i))
    /\ Done(r)
    /\ UNCHANGED sequence

\* Slip: the invoice is issued as the request read it.
IssueUnlocked(r) ==
    LET i == biller[r].on IN
    /\ biller[r].job = "issue"
    /\ biller[r].status = "draft"
    /\ invoice[i].lines # {}
    /\ sequence < MaxNumber
    /\ \A j \in Invoices : invoice[j].number # sequence + 1
    /\ invoice' = [invoice EXCEPT ![i].status = "issued", ![i].number = sequence + 1]
    /\ sequence' = sequence + 1
    /\ Done(r)
    /\ UNCHANGED stale

\* issue_invoice locks the invoice and the settings; a number is unique.
IssueInvoice(r) ==
    LET i == biller[r].on IN
    /\ biller[r].job = "issue"
    /\ invoice[i].status = "draft"
    /\ invoice[i].lines # {}
    /\ sequence < MaxNumber
    /\ \A j \in Invoices : invoice[j].number # sequence + 1
    /\ invoice' = [invoice EXCEPT ![i].status = "issued", ![i].number = sequence + 1]
    /\ sequence' = sequence + 1
    /\ Done(r)
    /\ UNCHANGED stale

\* delete_draft deletes the invoice it read with its lines, whatever it has become.
DeleteDraft(r) ==
    LET i == biller[r].on IN
    /\ biller[r].job = "delete"
    /\ invoice' = [invoice EXCEPT ![i] = NoInvoice]
    /\ stale' = (stale \/ ~SeenAs(r, i))
    /\ Done(r)
    /\ UNCHANGED sequence

\* invoice_notes saves every column as it read it, and an invoice deleted meanwhile anew.
SaveNotes(r) ==
    LET i == biller[r].on IN
    /\ biller[r].job = "notes"
    /\ invoice' = [invoice EXCEPT ![i].status = biller[r].status,
                                  ![i].number = biller[r].number]
    /\ stale' = (stale \/ ~SeenAs(r, i))
    /\ Done(r)
    /\ UNCHANGED sequence

\* billing_settings: the form does not show the sequence, but its row is saved whole.
OpenSettings(r) ==
    /\ biller[r] = AtRest
    /\ biller' = [biller EXCEPT ![r] = [AtRest EXCEPT !.job = "settings", !.number = sequence]]
    /\ UNCHANGED <<invoice, sequence, stale>>

SaveSettings(r) ==
    /\ biller[r].job = "settings"
    /\ sequence' = biller[r].number
    /\ stale' = (stale \/ biller[r].number # sequence)
    /\ Done(r)
    /\ UNCHANGED invoice

\* A refusal: the invoice is no draft, empty or gone, or the time or the number is taken.
Refuse(r) ==
    /\ biller[r] # AtRest
    /\ Done(r)
    /\ UNCHANGED <<invoice, sequence, stale>>

----------------------------------------------------------------------------
DraftsInit ==
    /\ invoice = [i \in Invoices |-> NoInvoice]
    /\ sequence = 0
    /\ biller = [r \in Billers |-> AtRest]
    /\ stale = FALSE

DraftsNext ==
    \/ \E i \in Invoices : CreateDraft(i)
    \/ \E r \in Billers :
          \/ \E job \in Jobs, i \in Invoices, l \in Lines : ReadInvoice(r, job, i, l)
          \/ AddLine(r) \/ DropLine(r) \/ IssueInvoice(r) \/ DeleteDraft(r) \/ SaveNotes(r)
          \/ OpenSettings(r) \/ SaveSettings(r) \/ Refuse(r)

DraftsSpec == DraftsInit /\ [][DraftsNext]_draftVars

----------------------------------------------------------------------------
\* A time entry is on one invoice at most, however many drafts take it at once
\* (unbilled_time looks before add_time_to_invoice writes).
TimeBilledOnce ==
    \A i, j \in Invoices : i # j => invoice[i].lines \cap invoice[j].lines \subseteq {"typed"}

\* While no request saves over what changed since it read it, the numbers given out are
\* 1 to the sequence, each on one issued invoice: drafts, refusals and two requests
\* issuing one draft leave no gap (models.py, Invoice.number and next_invoice_number).
GaplessNumbers ==
    ~stale =>
        LET issued == {i \in Invoices : invoice[i].status = "issued"} IN
        /\ {invoice[i].number : i \in issued} = 1..sequence
        /\ Cardinality(issued) = sequence

\* Drafts become invoices that bill each time entry once under numbers without a gap
\* (billing/services.py).
InvoicesInOrder == TimeBilledOnce /\ GaplessNumbers
=============================================================================
