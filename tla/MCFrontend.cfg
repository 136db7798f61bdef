CONSTANTS
    a1 = a1
    a2 = a2
    o1 = o1
    o2 = o2
    bad = bad
    s1 = s1
    s2 = s2
    c1 = c1
    c2 = c2
    None = None
    Accounts = {a1, a2}
    Tickets <- MCTickets
    InvalidOrders = {bad}
    Limits = {1, 2}
    Curves = {c1, c2}
    Outgoing = {"base"}
    Tasks = {1, 2}
    InitialTicket <- MCInitialTicket
    InitialCurve = c1
    InitialAccount = a1
    Sessions <- MCSessions
    MaxPlans = 2
    MaxTxs = 4
SPECIFICATION Spec
INVARIANTS TypeOK QuoteMatchesTicket SignedAsReviewed StepsAwaitReceipts DraftsMatchPositions ReplacementFollowsDock
PROPERTIES WaitsEnd
CHECK_DEADLOCK FALSE
