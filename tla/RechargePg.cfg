SPECIFICATION FairSpec
CONSTANTS
    u1 = u1
    o1 = o1
    r1 = r1
    k1 = k1
    k2 = k2
    h1 = h1
    Users = {u1}
    Orders = {o1}
    UserRequests = {r1}
    Owner <- OneOwner
    AmountFen <- TwoFen
    Backend = "pg"
    MaxCredits = 2
    Reconcilers = {k1, k2}
    Handlers = {h1}
    RefundOutcomes = {"succeeded", "lost", "unsupported"}
    UnpaidReports = {"pending"}
INVARIANTS
    TypeOK
    CreditedAtMostOnce
    SettledOnce
    OverdrawnOnlyByRecovery
    PaidOrderWasCredited
    RefundedOrderWasTakenBack
PROPERTIES
    DecisionsAreFinal
    PaymentIsCredited
