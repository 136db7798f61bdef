CONSTANTS
    WAD = 8
    MaxAmount = 127
    Tolerance = 0
    Ln <- MCLn
    Exp <- MCExp
    Pow <- MCPow
    Tokens <- MCTokens
    Factor <- MCFactor
    MaxVersion = 2
    m1 = m1
    m2 = m2
    alice = alice
    carol = carol
    p1 = p1
    p2 = p2
    p3 = p3
    Executor = Executor
    Idle = Idle
    Accounts <- MCAccounts
    Positions <- MCPositions
    Config <- MCConfig
    Calls <- MCCalls
    Route <- MCRoute
    MaxFills = 2
    InitialBalance <- MCBalance
    ShipAmounts <- MCShipAmounts
    DirectTakers <- MCDirectTakers
    DirectAmounts <- MCShipAmounts
    Senders <- MCSenders
    TransferAmounts <- MCOne
    MaxTime = 1
    MaxExternal = 1
SPECIFICATION Spec
INVARIANTS TypeOK OneRoutePerVersion AllowanceIsFunded BackedFillIsDelivered
PROPERTIES ExecutorIsConduit ImplementsAtomicRoutes
CHECK_DEADLOCK FALSE
