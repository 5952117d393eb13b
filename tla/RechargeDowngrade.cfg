SPECIFICATION Spec
CONSTANTS
    u1 = u1
    o1 = o1
    r1 = r1
    k1 = k1
    k2 = k2
    h1 = h1
    Users = {u1}
    Orders = {o1}
    UserRequests = {}
    Owner <- OneOwner
    AmountFen <- TwoFen
    Backend = "pg"
    MaxCredits = 2
    Reconcilers = {k1}
    Handlers = {}
    RefundOutcomes = {"succeeded", "lost", "unsupported"}
    UnpaidReports = {"pending"}
PROPERTIES
    NeverDowngraded
