-------------------------- MODULE MCInvoiceLedger --------------------------
(* Small instances of the invoice ledger. *)
EXTENDS InvoiceLedger, FiniteSetsExt, TLC

CONSTANTS r1, r2, p1, p2, p3, q1, q2

\* Payments of one cent and one of two on an invoice of three cents: two of them
\* fill it, and all three would go beyond it.
MCAmount == [p \in Payments |-> IF p = p2 THEN 2 ELSE 1]

\* Requests, plans and payments of the same amount are alike.
MCSymmetry == Permutations(Requests) \cup Permutations(Plans) \cup Permutations({p1, p3})

\* The stored total is the sum of the payments that are not void: a payment
\* voided twice at once is subtracted once.
LedgerAddsUp ==
    paid = MapThenSumSet(LAMBDA p : Amount[p], {p \in Payments : payment[p] = "live"})
=============================================================================
