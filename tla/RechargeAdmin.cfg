SPECIFICATION AdminSpec
CONSTANTS
    u1 = u1
    u2 = u2
    o1 = o1
    r1 = r1
    r2 = r2
    h1 = h1
    a1 = a1
    a2 = a2
    n1 = n1
    n2 = n2
    Users = {u1, u2}
    Orders = {o1}
    UserRequests = {r1, r2}
    Owner <- FirstUser
    AmountFen <- TwoFen
    Backend = "pg"
    MaxCredits = 1
    Reconcilers = {}
    Handlers = {h1}
    RefundOutcomes = {"succeeded", "pending", "unsupported", "failed", "lost"}
    UnpaidReports = {"pending"}
    Admins = {a1, a2}
    Names = {n1, n2}
    Recharges = {n2}
    Fen <- TakeOrGive
INVARIANTS
    RefundsWithinOrder
    WalletIsItsRows
    AnswersAreTrue
SYMMETRY SameRequests
