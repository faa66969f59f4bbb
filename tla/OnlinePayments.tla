--------------------------- MODULE OnlinePayments ----------------------------
(***************************************************************************)
(* An invoice paid online: the links staff ask a processor for             *)
(* (crm/billing/links.py), the charges clients make through them, the      *)
(* processor's news of them (connectors/stripe, connectors/lawpay), and    *)
(* the payments that are recorded for it (crm/billing/records.py).         *)
(* How payments race each other on the invoice is in InvoiceLedger.        *)
(***************************************************************************)
EXTENDS Integers, Sequences, FiniteSets, FiniteSetsExt

CONSTANTS
    TrustPart, EarnedPart,  \* what the invoice's advances and earned fees come to
    Charges,                \* charges that clients may make
    Desks,                  \* requests of staff for links
    MaxLinks                \* bound on the links

ASSUME OnlineAssumption == TrustPart \in Nat /\ EarnedPart \in Nat /\ MaxLinks \in Nat

VARIABLES
    processor,  \* "stripe", whose events are pushed, or "lawpay", whose list is read
    charge,     \* the processor's charges: state, link, and account as it tells it
    news,       \* its events about them so far, as [of, kind, at]
    todo,       \* those the CRM has not handled
    payLink,    \* PaymentLink rows with whether the processor takes payments on them
    desk,       \* what each request of staff still has to ask links for
    recorded,   \* for each charge, no payment, a live one, or a voided one
    byHand,     \* paid by other means into each account
    voided,     \* the invoice is void
    known,      \* charges staff were told of by a note, or settled themselves
    crossed     \* events out of order, a failed one, links asked for side by side

payVars == <<processor, charge, news, todo, payLink, desk, recorded, byHand, voided,
             known, crossed>>

Accounts == {"trust", "operating"}
NoCharge == [state |-> "none", link |-> 0, account |-> ""]
Kinds == {"pending", "paid", "failed", "part", "refunded"}
News == [of : Charges, kind : Kinds, at : 1..4]
Askings == [account : Accounts, amount : 1..(TrustPart + EarnedPart)]

PayTypeOK ==
    /\ processor \in {"stripe", "lawpay"}
    /\ charge \in [Charges -> [state : Kinds \cup {"none"}, link : 0..MaxLinks,
                               account : Accounts \cup {""}]]
    /\ news \subseteq News /\ todo \subseteq news
    /\ Len(payLink) <= MaxLinks
    /\ \A l \in DOMAIN payLink : payLink[l].for \in Askings /\ payLink[l].active \in BOOLEAN
    /\ desk \in [Desks -> SUBSET Askings]
    /\ recorded \in [Charges -> {"none", "live", "void"}]
    /\ byHand \in [Accounts -> Nat]
    /\ voided \in BOOLEAN /\ known \subseteq Charges /\ crossed \in BOOLEAN

----------------------------------------------------------------------------
Min2(a, b) == IF a < b THEN a ELSE b

\* deposit_account: a charge that does not say where it went is earned money only on an
\* invoice without advances; otherwise it waits for staff.
Deposit(c) ==
    IF charge[c].account # "" THEN charge[c].account
    ELSE IF TrustPart > 0 THEN "" ELSE "operating"

ChargeAmount ==
    [c \in {d \in Charges : charge[d].link # 0} |-> payLink[charge[c].link].for.amount]
Live(account) == {c \in Charges : recorded[c] = "live" /\ Deposit(c) = account}
PaidInto(account) == byHand[account] + MapThenSumSet(LAMBDA c : ChargeAmount[c], Live(account))
Outstanding ==
    IF voided THEN 0 ELSE TrustPart + EarnedPart - PaidInto("trust") - PaidInto("operating")

\* amounts_due
Part == [trust |-> TrustPart, operating |-> EarnedPart]
Owed(account) == Min2(Part[account] - PaidInto(account), Outstanding)
AmountsDue == {[account |-> a, amount |-> Owed(a)] : a \in {b \in Accounts : Owed(b) > 0}}

LinksNeeded == {d \in AmountsDue : \A l \in DOMAIN payLink : payLink[l].for # d}

\* A Stripe account pays out to one account; LawPay has a page for each.
StripePays(account) == processor = "stripe" /\ account = "operating"
LawPayPage(account) == processor = "lawpay" /\ account \in Accounts
Served == {a \in Accounts : StripePays(a) \/ LawPayPage(a)}

\* The metadata of a link says where its charges go; LawPay's deposit_account goes by the
\* settings and by what LawPay says of its account, which may be nothing.
AccountTold(l) ==
    {payLink[l].for.account} \cup IF processor = "lawpay" THEN {""} ELSE {}

----------------------------------------------------------------------------
\* create_links decides for all accounts, and asks for one link after the other; a link
\* the processor, the policy or the preview mode refuses has no row.
AskLinks(d) ==
    /\ desk[d] = {}
    /\ LET wanted == {n \in LinksNeeded : n.account \in Served}
       IN  wanted # {} /\ desk' = [desk EXCEPT ![d] = wanted]
    /\ crossed' = (crossed \/ \E e \in Desks : desk[e] # {})
    /\ UNCHANGED <<processor, charge, news, todo, payLink, recorded, byHand, voided, known>>

MakeLink(d, asking, ok) ==
    /\ asking \in desk[d] /\ Len(payLink) < MaxLinks
    /\ desk' = [desk EXCEPT ![d] = @ \ {asking}]
    /\ payLink' = IF ok THEN Append(payLink, [for |-> asking, active |-> TRUE]) ELSE payLink
    /\ UNCHANGED <<processor, charge, news, todo, recorded, byHand, voided, known, crossed>>

----------------------------------------------------------------------------
\* The processor: a charge by card is paid at once, one by bank clears or fails later, and
\* either may be refunded, in part or as a whole.  LawPay tells nothing of pending ones,
\* and may not know whether an account is a trust account.
Tell(c, kind) ==
    IF processor = "lawpay" /\ kind = "pending" THEN UNCHANGED <<news, todo>>
    ELSE LET told == [of |-> c, kind |-> kind,
                      at |-> 1 + Cardinality({n \in news : n.of = c})]
         IN  news' = news \cup {told} /\ todo' = todo \cup {told}

Charge(c, l, kind, account) ==
    /\ charge[c] = NoCharge
    /\ l \in DOMAIN payLink /\ kind \in {"paid", "pending"}
    /\ processor = "stripe" => payLink[l].active
    /\ account \in AccountTold(l)
    /\ charge' = [charge EXCEPT ![c] = [state |-> kind, link |-> l, account |-> account]]
    /\ Tell(c, kind)
    /\ UNCHANGED <<processor, payLink, desk, recorded, byHand, voided, known, crossed>>

Moves == {<<"pending", "paid">>, <<"pending", "failed">>, <<"paid", "part">>,
          <<"paid", "refunded">>, <<"part", "refunded">>}

ChargeMoves(c, kind) ==
    /\ <<charge[c].state, kind>> \in Moves
    /\ charge' = [charge EXCEPT ![c].state = kind]
    /\ Tell(c, kind)
    /\ UNCHANGED <<processor, payLink, desk, recorded, byHand, voided, known, crossed>>

----------------------------------------------------------------------------
\* LawPay's refund asks how the charge stands now; other events say what they tell of.
Status(n) ==
    IF processor = "lawpay" /\ n.kind \in {"part", "refunded"} THEN charge[n.of].state
    ELSE n.kind

\* record_payment
Fits(c) == ~voided /\ ChargeAmount[c] <= Outstanding

\* Slip: a payment the invoice has no room for is dropped without a note.
StoreQuietly(c, status) ==
    CASE status = "refunded" /\ recorded[c] = "live" -> [as |-> "void", told |-> {}]
      [] status = "part" /\ recorded[c] = "live" -> [as |-> "live", told |-> {c}]
      [] status = "paid" /\ recorded[c] = "none" /\ Deposit(c) # "" /\ Fits(c) ->
            [as |-> "live", told |-> {}]
      [] OTHER -> [as |-> recorded[c], told |-> {}]

\* records.store_one: a payment once per charge, a note where it is left to staff.
StoreOne(c, status) ==
    CASE status = "refunded" /\ recorded[c] = "live" -> [as |-> "void", told |-> {}]
      [] status = "part" /\ recorded[c] = "live" -> [as |-> "live", told |-> {c}]
      [] status = "paid" /\ recorded[c] = "none" ->
            IF Deposit(c) # "" /\ Fits(c) THEN [as |-> "live", told |-> {}]
            ELSE [as |-> "none", told |-> {c}]
      [] OTHER -> [as |-> recorded[c], told |-> {}]

\* Stripe's handle_webhook takes the link out of use, or puts it back when the bank's
\* payment failed, before it gives the record.
LinkAfter(n) ==
    IF processor = "stripe" /\ n.kind \in {"pending", "paid", "failed"}
    THEN [payLink EXCEPT ![charge[n.of].link].active = (n.kind = "failed")]
    ELSE payLink

Late(n) == \E m \in todo : m.of = n.of /\ m.at < n.at

\* LawPay's list is read again with an overlap, from some event on.
ReadAgain(n) ==
    /\ processor = "lawpay" /\ n \in news
    /\ todo' = todo \cup {m \in news : m.of = n.of /\ m.at >= n.at}
    /\ UNCHANGED <<processor, charge, news, payLink, desk, recorded, byHand, voided,
                   known, crossed>>

\* A delivery of LawPay's has its event fetched, whoever sent it and however often.
Hint(n) ==
    /\ processor = "lawpay" /\ n \in news
    /\ todo' = todo \cup {n}
    /\ UNCHANGED <<processor, charge, news, payLink, desk, recorded, byHand, voided,
                   known, crossed>>

Handle(n) ==
    /\ n \in todo
    /\ LET stored == StoreOne(n.of, Status(n)) IN
       /\ recorded' = [recorded EXCEPT ![n.of] = stored.as]
       /\ known' = known \cup stored.told
    /\ payLink' = LinkAfter(n)
    /\ todo' = todo \ {n}
    /\ crossed' = (crossed \/ Late(n))
    /\ UNCHANGED <<processor, charge, news, desk, byHand, voided>>

\* The processor does not answer: a webhook event fails for good, a list is read again.
HandlingFails(n) ==
    /\ n \in todo /\ processor = "stripe"
    /\ todo' = todo \ {n}
    /\ crossed' = TRUE
    /\ UNCHANGED <<processor, charge, news, payLink, desk, recorded, byHand, voided, known>>

----------------------------------------------------------------------------
\* Staff: payments by other means, voided payments, a void invoice.
PayByHand(account) ==
    /\ Outstanding > 0
    /\ byHand' = [byHand EXCEPT ![account] = @ + 1]
    /\ UNCHANGED <<processor, charge, news, todo, payLink, desk, recorded, voided, known,
                   crossed>>

VoidPayment(c) ==
    /\ recorded[c] = "live"
    /\ recorded' = [recorded EXCEPT ![c] = "void"]
    /\ known' = known \cup {c}
    /\ UNCHANGED <<processor, charge, news, todo, payLink, desk, byHand, voided, crossed>>

VoidInvoice ==
    /\ ~voided /\ Outstanding = TrustPart + EarnedPart
    /\ voided' = TRUE
    /\ UNCHANGED <<processor, charge, news, todo, payLink, desk, recorded, byHand, known,
                   crossed>>

PayInit ==
    /\ processor \in {"stripe", "lawpay"}
    /\ charge = [c \in Charges |-> NoCharge]
    /\ news = {} /\ todo = {} /\ payLink = <<>> /\ known = {}
    /\ desk = [d \in Desks |-> {}]
    /\ recorded = [c \in Charges |-> "none"]
    /\ byHand = [a \in Accounts |-> 0]
    /\ voided = FALSE /\ crossed = FALSE

PayNext ==
    \/ \E d \in Desks :
          AskLinks(d) \/ \E asking \in Askings, ok \in BOOLEAN : MakeLink(d, asking, ok)
    \/ \E c \in Charges :
          \/ VoidPayment(c)
          \/ \E kind \in Kinds :
                \/ ChargeMoves(c, kind)
                \/ \E l \in 1..MaxLinks, a \in Accounts \cup {""} : Charge(c, l, kind, a)
    \/ \E n \in news : Handle(n) \/ ReadAgain(n) \/ Hint(n) \/ HandlingFails(n)
    \/ \E a \in Accounts : PayByHand(a)
    \/ VoidInvoice

PaySpec == PayInit /\ [][PayNext]_payVars

----------------------------------------------------------------------------
\* When every event is handled, in the order of each charge and with none failed, what a
\* client has paid is a live payment or known to staff, and what came back or never came
\* is not one, unless staff were told that there was no room for it: LawPay's event that it
\* was paid may be read once more, after it was refunded, when there is room (handle_webhook,
\* records_for, store_one).
TakenIsBooked ==
    todo = {} /\ ~crossed =>
        \A c \in Charges :
            IF charge[c].state = "paid" THEN recorded[c] = "live" \/ c \in known
            ELSE IF charge[c].state = "part" THEN c \in known
            ELSE recorded[c] # "live" \/ c \in known

\* What the links are asked to bring in is the balance, whatever was paid into which
\* account (amounts_due).
DueIsBalance == MapThenSumSet(LAMBDA d : d.amount, AmountsDue) = Outstanding

\* No second link asks for the same amount into the same account, unless two requests
\* asked side by side (links_needed).
OneLinkEach ==
    crossed \/ \A k, l \in DOMAIN payLink : payLink[k].for = payLink[l].for => k = l

\* Online payments are asked for once, and recorded as they were made.
PaidOnlineKept == TakenIsBooked /\ DueIsBalance /\ OneLinkEach
=============================================================================
