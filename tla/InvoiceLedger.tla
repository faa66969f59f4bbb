--------------------------- MODULE InvoiceLedger ---------------------------
(***************************************************************************)
(* The ledger of one issued invoice: its payments, its status and its      *)
(* payment plans, as crm/billing/services.py keeps them, with several web  *)
(* requests and sync tasks at work at once.                                *)
(*                                                                         *)
(* Each of them is a PostgreSQL transaction at READ COMMITTED: a statement *)
(* reads what is committed when it runs, and a row written or locked FOR   *)
(* UPDATE is held until commit or rollback.  record_payment and            *)
(* create_plan lock the invoice row before they read it.  void_payment,    *)
(* void_invoice and cancel_plan lock nothing: they work from what they     *)
(* read earlier and take a row only when they write it.                    *)
(*                                                                         *)
(* A step of a request is one read with its checks, or the commit that     *)
(* makes its writes visible.  Two reads share a step only when no other    *)
(* request could tell them apart.  Money is in cents.                      *)
(***************************************************************************)
EXTENDS Integers

CONSTANTS
    Requests,   \* web requests and sync tasks that may be in flight together
    Payments,   \* payments that may be recorded: a form post or a provider's ID
    Amount,     \* the amount of each payment
    Subtotal,   \* what the issued invoice's lines add up to
    Plans,      \* payment plans that may be made for the invoice
    Count,      \* installments per plan
    None        \* no payment, no plan, no status

ASSUME LedgerAssumption ==
    /\ Subtotal \in Nat \ {0}
    /\ Amount \in [Payments -> Nat \ {0}]
    /\ Count \in Nat \ {0, 1}
    /\ None \notin Requests \cup Payments \cup Plans

VARIABLES
    status,      \* Invoice.status
    timeBilled,  \* the invoice's lines still hold their time entries
    payment,     \* Payment rows: not there yet, live, or with voided_at set
    paid,        \* Invoice.amount_paid: the SUM of the live payments
    plan,        \* PaymentPlan rows with the balance each one split
    reminder,    \* the WorkItem of each installment of each plan
    req,         \* what each request holds in memory
    stale,       \* history: requests whose reads another commit has outdated
    overlapped   \* history: a request has committed although it was stale

vars == <<status, timeBilled, payment, paid, plan, reminder, req, stale, overlapped>>
invoiceVars == <<status, timeBilled>>
paymentVars == <<payment, paid>>
planVars == <<plan, reminder>>
dbVars == <<status, timeBilled, payment, paid, plan, reminder>>

----------------------------------------------------------------------------
\* Values

Installments == 1..Count
OpenStatuses == {"issued", "partially_paid"}
InvoiceStatus == OpenStatuses \cup {"paid", "void"}
PlanInForce == {"active", "completed"}
PlanRow == [status: PlanInForce \cup {"unused", "canceled"}, balance: Int]

Steps == {"idle", "record", "record.commit", "void", "void.save", "void.commit",
          "voidinvoice", "voidinvoice.commit", "cancel"}
Request == [step: Steps, pay: Payments \cup {None},
            status: InvoiceStatus \cup {None}, plan: Plans \cup {None}]
Idle == [step |-> "idle", pay |-> None, status |-> None, plan |-> None]

\* Slip: the branch for an invoice with nothing paid is missing.
StatusForPartial(total) ==
    IF total >= Subtotal THEN "paid"
    ELSE IF total > 0 THEN "partially_paid" ELSE None

\* The status refresh_status gives an issued invoice with this much paid.
StatusFor(total) ==
    IF total >= Subtotal THEN "paid"
    ELSE IF total > 0 THEN "partially_paid" ELSE "issued"

Balance == IF status = "void" THEN 0 ELSE Subtotal - paid

\* Invoice.plan: the plan that is not canceled, if there is one.
InForce == {q \in Plans : plan[q].status \in PlanInForce}
CurrentPlan == IF InForce = {} THEN None ELSE CHOOSE q \in InForce : TRUE

\* Slip: a payment that is void already is taken off again.
PaidWithoutAgain(p) == paid - Amount[p]

\* What would be paid once payment p is void.
PaidWithout(p) == IF payment[p] = "live" THEN paid - Amount[p] ELSE paid

----------------------------------------------------------------------------
\* The installments of a plan

\* split_amount: equal installments rounded half up, the rest on the last one.
Each(balance) == (2 * balance + Count) \div (2 * Count)
InstallmentAmount(balance, k) ==
    IF k < Count THEN Each(balance) ELSE balance - Each(balance) * (Count - 1)

\* PaymentPlan.schedule says "paid" for installment k: all the invoice has been
\* paid, applied oldest first, covers the installments up to k.
InstallmentPaid(balance, k, total) ==
    \/ InstallmentAmount(balance, k) <= 0
    \/ total >= IF k < Count THEN k * Each(balance) ELSE balance

----------------------------------------------------------------------------
\* Row locks: each one follows from how far its holder has come

HoldsInvoice(r) ==
    \/ req[r].step = "record.commit"
    \/ req[r].step = "void.commit" /\ req[r].status # "void"
\* Slip: record_payment does without select_for_update.
InvoiceFreeAlways == TRUE

\* select_for_update, or an UPDATE of the invoice, can have the row.
InvoiceFree == \A r \in Requests : ~HoldsInvoice(r)

HoldsPlan(r, q) == req[r].step = "voidinvoice.commit" /\ req[r].plan = q
PlanFree(q) == q # None => \A r \in Requests : ~HoldsPlan(r, q)

HoldsPayment(r, p) == req[r].step \in {"void.save", "void.commit"} /\ req[r].pay = p
PaymentFree(p) == \A r \in Requests : ~HoldsPayment(r, p)

----------------------------------------------------------------------------
\* How a request moves, and what a commit does to the others

InFlight == {r \in Requests : req[r] # Idle}

Goto(r, local) == req' = [req EXCEPT ![r] = local]

\* The request reads afresh: nothing it holds in memory is out of date now.
Reads(r) == stale' = stale \ {r} /\ UNCHANGED overlapped

\* The request commits and ends; whatever the others have read is outdated.
Commits(r) ==
    /\ Goto(r, Idle)
    /\ stale' = InFlight \ {r}
    /\ overlapped' = (overlapped \/ r \in stale)

\* The request ends without having changed anything.
GivesUp(r) == Goto(r, Idle) /\ Reads(r) /\ UNCHANGED dbVars

----------------------------------------------------------------------------
\* Writes shared by the operations

\* sync_plan: match the reminders and the plan's status to what has been paid.
SyncPlan(q, invoiceStatus, total) ==
    IF q = None THEN UNCHANGED planVars
    ELSE /\ plan' = [plan EXCEPT ![q].status =
                        IF invoiceStatus = "paid" THEN "completed" ELSE "active"]
         /\ reminder' = [reminder EXCEPT ![q] = [k \in Installments |->
                IF reminder[q][k] = "none" THEN "none"
                ELSE IF InstallmentPaid(plan[q].balance, k, total) THEN "done" ELSE "open"]]

\* A sync that puts a canceled plan back in force meets the unique constraint
\* billing_one_plan_in_force if another plan is in force.
SyncAllowed(q) == q # None => InForce \subseteq {q}

\* Slip: a canceled plan keeps its open reminders.
EndPlanOnly(q) ==
    IF q = None THEN UNCHANGED planVars
    ELSE plan' = [plan EXCEPT ![q].status = "canceled"] /\ UNCHANGED reminder

\* cancel_plan: open reminders are deleted, completed ones stay.
EndPlan(q) ==
    IF q = None THEN UNCHANGED planVars
    ELSE /\ plan' = [plan EXCEPT ![q].status = "canceled"]
         /\ reminder' = [reminder EXCEPT ![q] = [k \in Installments |->
                IF reminder[q][k] = "open" THEN "none" ELSE reminder[q][k]]]

----------------------------------------------------------------------------
\* record_payment, from the payment form or from a provider's report

\* The form is posted, or store_one finds no payment with the provider's ID.
BeginRecord(r, p) ==
    /\ req[r] = Idle
    /\ payment[p] = "none"
    /\ Goto(r, [Idle EXCEPT !.step = "record", !.pay = p])
    /\ Reads(r)
    /\ UNCHANGED dbVars

\* Slip: the amount is not compared with the balance under the lock.
AcceptableAnyAmount(p) == status \in OpenStatuses /\ payment[p] = "none"

Acceptable(p) ==
    status \in OpenStatuses /\ Amount[p] <= Balance /\ payment[p] = "none"

\* The invoice row is locked, and the payment is not acceptable: the invoice is
\* not open, the balance is smaller, or the provider's ID was stored meanwhile.
RefusePayment(r) ==
    /\ req[r].step = "record"
    /\ InvoiceFree
    /\ ~Acceptable(req[r].pay)
    /\ GivesUp(r)

\* The invoice row is locked, the payment inserted, the new status saved and the
\* plan in force fetched, none of it visible to others yet.
AcceptPayment(r) ==
    /\ req[r].step = "record"
    /\ InvoiceFree
    /\ Acceptable(req[r].pay)
    /\ Goto(r, [step |-> "record.commit", pay |-> req[r].pay,
                status |-> StatusFor(paid + Amount[req[r].pay]), plan |-> CurrentPlan])
    /\ Reads(r)
    /\ UNCHANGED dbVars

CommitPayment(r) ==
    LET p == req[r].pay IN
    /\ req[r].step = "record.commit"
    /\ PlanFree(req[r].plan)
    /\ SyncAllowed(req[r].plan)
    /\ payment' = [payment EXCEPT ![p] = "live"]
    /\ paid' = paid + Amount[p]
    /\ status' = req[r].status
    /\ SyncPlan(req[r].plan, req[r].status, paid + Amount[p])
    /\ Commits(r)
    /\ UNCHANGED timeBilled

----------------------------------------------------------------------------
\* void_payment, from the payments table or from a provider's refund

\* The payment is read, and is not void.
BeginVoidPayment(r, p) ==
    /\ req[r] = Idle
    /\ payment[p] = "live"
    /\ Goto(r, [Idle EXCEPT !.step = "void", !.pay = p])
    /\ Reads(r)
    /\ UNCHANGED dbVars

\* Slip: the status is refreshed before the payment is saved as void.
ReadForVoidEarly(r) ==
    /\ req[r].step = "void"
    /\ PaymentFree(req[r].pay)
    /\ Goto(r, [step |-> "void.save", pay |-> req[r].pay, plan |-> None,
                status |-> IF status = "void" THEN "void" ELSE StatusFor(paid)])
    /\ Reads(r)
    /\ UNCHANGED dbVars

\* The payment row is updated (another void of it waits here), and the invoice
\* and what is paid without this payment are read: refresh_status.
ReadForVoid(r) ==
    LET p == req[r].pay IN
    /\ req[r].step = "void"
    /\ PaymentFree(p)
    /\ Goto(r, [step |-> "void.save", pay |-> p, plan |-> None,
                status |-> IF status = "void" THEN "void" ELSE StatusFor(PaidWithout(p))])
    /\ Reads(r)
    /\ UNCHANGED dbVars

\* The invoice row is written, unless refresh_status found it void, and the plan
\* in force is fetched.
SaveVoidStatus(r) ==
    /\ req[r].step = "void.save"
    /\ req[r].status # "void" => InvoiceFree
    /\ Goto(r, [req[r] EXCEPT !.step = "void.commit", !.plan = CurrentPlan])
    /\ UNCHANGED <<dbVars, stale, overlapped>>

CommitVoidPayment(r) ==
    LET p == req[r].pay IN
    /\ req[r].step = "void.commit"
    /\ PlanFree(req[r].plan)
    /\ SyncAllowed(req[r].plan)
    /\ payment' = [payment EXCEPT ![p] = "void"]
    /\ paid' = PaidWithout(p)
    /\ status' = IF req[r].status = "void" THEN status ELSE req[r].status
    /\ SyncPlan(req[r].plan, req[r].status, PaidWithout(p))
    /\ Commits(r)
    /\ UNCHANGED timeBilled

----------------------------------------------------------------------------
\* void_invoice

\* The view reads the invoice, and it is open.
BeginVoidInvoice(r) ==
    /\ req[r] = Idle
    /\ status \in OpenStatuses
    /\ Goto(r, [Idle EXCEPT !.step = "voidinvoice"])
    /\ Reads(r)
    /\ UNCHANGED dbVars

RefuseVoidInvoice(r) ==
    /\ req[r].step = "voidinvoice"
    /\ \E p \in Payments : payment[p] = "live"
    /\ GivesUp(r)

\* No live payment: the plan in force is canceled and its row held.
CheckNoPayments(r) ==
    /\ req[r].step = "voidinvoice"
    /\ \A p \in Payments : payment[p] # "live"
    /\ PlanFree(CurrentPlan)
    /\ Goto(r, [req[r] EXCEPT !.step = "voidinvoice.commit", !.plan = CurrentPlan])
    /\ UNCHANGED <<dbVars, stale, overlapped>>

CommitVoidInvoice(r) ==
    /\ req[r].step = "voidinvoice.commit"
    /\ InvoiceFree
    /\ status' = "void"
    /\ timeBilled' = FALSE
    /\ EndPlan(req[r].plan)
    /\ Commits(r)
    /\ UNCHANGED paymentVars

----------------------------------------------------------------------------
\* create_plan and cancel_plan

\* One step: it reads under the invoice row's lock, and no other request can
\* write what it reads while it holds that lock, a plan's cancellation excepted,
\* which it may see or not.
CreatePlan(r, q) ==
    /\ req[r] = Idle
    /\ InvoiceFree
    /\ status \in OpenStatuses
    /\ Balance > 0
    /\ InForce = {}
    /\ plan[q].status = "unused"
    /\ plan' = [plan EXCEPT ![q] = [status |-> "active", balance |-> Balance]]
    /\ reminder' = [reminder EXCEPT ![q] = [k \in Installments |-> "open"]]
    /\ Commits(r)
    /\ UNCHANGED <<invoiceVars, paymentVars>>

\* The view reads the plan in force.
BeginCancelPlan(r) ==
    /\ req[r] = Idle
    /\ InForce # {}
    /\ Goto(r, [Idle EXCEPT !.step = "cancel", !.plan = CurrentPlan])
    /\ Reads(r)
    /\ UNCHANGED dbVars

CommitCancelPlan(r) ==
    /\ req[r].step = "cancel"
    /\ PlanFree(req[r].plan)
    /\ EndPlan(req[r].plan)
    /\ Commits(r)
    /\ UNCHANGED <<invoiceVars, paymentVars>>

----------------------------------------------------------------------------
\* Rollbacks

\* Slip: nobody ends a deadlock.
DeadlockedNever(r, s) == FALSE

\* A request that voids the invoice holds the plan's row and wants the
\* invoice's; one that holds the invoice's row may want the plan's.
Deadlocked(r, s) ==
    /\ req[r].step = "voidinvoice.commit"
    /\ HoldsInvoice(s)
    /\ req[r].plan # None
    /\ req[s].plan = req[r].plan

\* PostgreSQL rolls back one of the two, and a statement that breaks a
\* constraint ends its request.
Fail(r) ==
    /\ \/ \E s \in Requests : Deadlocked(r, s) \/ Deadlocked(s, r)
       \/ /\ req[r].step \in {"record.commit", "void.commit"}
          /\ ~SyncAllowed(req[r].plan)
    /\ GivesUp(r)

\* The web server or the worker goes away in mid-request, or a late row conflict
\* ends it: its transaction rolls back.
Rollback(r) ==
    /\ req[r] # Idle
    /\ GivesUp(r)

----------------------------------------------------------------------------
Init ==
    /\ status = "issued"
    /\ timeBilled = TRUE
    /\ payment = [p \in Payments |-> "none"]
    /\ paid = 0
    /\ plan = [q \in Plans |-> [status |-> "unused", balance |-> 0]]
    /\ reminder = [q \in Plans |-> [k \in Installments |-> "none"]]
    /\ req = [r \in Requests |-> Idle]
    /\ stale = {}
    /\ overlapped = FALSE

Begin(r) ==
    \/ \E p \in Payments : BeginRecord(r, p) \/ BeginVoidPayment(r, p)
    \/ BeginVoidInvoice(r)
    \/ \E q \in Plans : CreatePlan(r, q)
    \/ BeginCancelPlan(r)

Proceed(r) ==
    \/ RefusePayment(r) \/ AcceptPayment(r) \/ CommitPayment(r)
    \/ ReadForVoid(r) \/ SaveVoidStatus(r) \/ CommitVoidPayment(r)
    \/ RefuseVoidInvoice(r) \/ CheckNoPayments(r) \/ CommitVoidInvoice(r)
    \/ CommitCancelPlan(r)
    \/ Fail(r)

Next == \E r \in Requests : Begin(r) \/ Proceed(r) \/ Rollback(r)

Spec == Init /\ [][Next]_vars

\* PostgreSQL serves the waiters of a row lock in turn, so a request that can go
\* on again and again does go on; nobody has to start a request.
FairSpec == Spec /\ \A r \in Requests : SF_vars(Proceed(r))

----------------------------------------------------------------------------
\* Properties

TypeOK ==
    /\ status \in InvoiceStatus
    /\ timeBilled \in BOOLEAN
    /\ payment \in [Payments -> {"none", "live", "void"}]
    /\ paid \in Int
    /\ plan \in [Plans -> PlanRow]
    /\ reminder \in [Plans -> [Installments -> {"none", "open", "done"}]]
    /\ req \in [Requests -> Request]
    /\ stale \subseteq Requests
    /\ overlapped \in BOOLEAN

\* Whatever runs at the same time, the invoice is never paid beyond its
\* subtotal: the balance record_payment checks is still there when it commits.
NeverOverpaid == paid <= Subtotal

\* A payment is recorded only on an invoice that is open at that very moment
\* and owes at least its amount, and only once per provider ID.
PaymentOnOpenInvoice ==
    \A p \in Payments :
        payment[p] # "live" /\ payment'[p] = "live" =>
            status \in OpenStatuses /\ payment[p] = "none" /\ paid' <= Subtotal
PaymentsOnlyOnOpenInvoice == [][PaymentOnOpenInvoice]_vars

\* As long as no request has committed on outdated reads, the stored status is
\* the one the live payments call for; a void invoice has no live payment, no
\* plan in force and none of its time, and any other invoice holds its time.
Settled ==
    IF status = "void"
    THEN (\A p \in Payments : payment[p] # "live") /\ InForce = {} /\ ~timeBilled
    ELSE status = StatusFor(paid) /\ timeBilled
SerialLedger == ~overlapped => Settled

\* As long as no request has committed on outdated reads, a plan in force is
\* completed exactly when the invoice is paid, a reminder is completed only when
\* its installment is paid, and a canceled plan has no open reminder.
PlanFollowsPayments ==
    \A q \in Plans :
        /\ q \in InForce => (plan[q].status = "completed" <=> status = "paid")
        /\ q \in InForce => \A k \in Installments :
                reminder[q][k] = "done" => InstallmentPaid(plan[q].balance, k, paid)
        /\ plan[q].status = "canceled" => \A k \in Installments : reminder[q][k] # "open"
SerialPlan == ~overlapped => PlanFollowsPayments

\* Every request that has begun ends, although requests wait for each other's
\* rows and two of them can wait for one another.
RequestsFinish == \A r \in Requests : req[r] # Idle ~> req[r] = Idle

\* services.py says of void_invoice: "Void an issued invoice with no live
\* payments".  A payment recorded between its check and its commit stays live.
VoidHasNoLivePayment == status = "void" => \A p \in Payments : payment[p] # "live"

\* models.py says a plan is "an issued invoice's balance split into scheduled
\* installments", so once all of them are paid nothing is left to pay.  What was
\* paid before the plan was made counts towards its installments all the same.
PaidPlanPaysInvoice ==
    ~overlapped => \A q \in InForce :
        (\A k \in Installments : reminder[q][k] = "done") => status = "paid"
=============================================================================
