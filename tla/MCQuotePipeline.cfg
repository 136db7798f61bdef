CONSTANTS
    m1 = m1
    m2 = m2
    Positions <- MCPositions
    Makers <- MCMakers
    MakerOf <- MCMakerOf
    Capacity <- MCCapacity
    Price <- MCPrice
    Counter <- MCCounter
    Outgoing <- MCOutgoing
    Scale = 2
    Transactions <- MCTransactions
    Requests <- MCRequests
    InitialSold <- MCSold
    InitialFunds <- MCFunds
    MaxBlocks = 3
    MaxIndexLag = 1
    PageSize = 2
    MaxPages = 3
    MaxFills = 3
    ReserveCount = 1
SPECIFICATION Spec
INVARIANTS SnapshotIsWhole SharesAreExact FillsWereBacked LimitIsReachable
PROPERTIES RequestIsAnswered
CHECK_DEADLOCK FALSE
