SPECIFICATION Spec
CONSTANTS
    r1 = r1
    r2 = r2
    p1 = p1
    p2 = p2
    p3 = p3
    q1 = q1
    q2 = q2
    None = None
    Requests = {r1}
    Payments = {p1, p3}
    Amount <- MCAmount
    Subtotal = 3
    Plans = {q1, q2}
    Count = 2
INVARIANT
    PaidPlanPaysInvoice
CHECK_DEADLOCK FALSE
