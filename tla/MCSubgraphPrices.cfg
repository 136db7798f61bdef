CONSTANTS
    WAD = 8
    MaxAmount = 127
    Tolerance = 0
    Ln <- MCLn
    Exp <- MCExp
    Pow <- MCPow
    Tokens <- MCTokens
    Factor <- MCFactor
    MaxVersion = 3
    p1 = p1
    p2 = p2
    alien = alien
    curved = curved
    route1 = route1
    Direct = Direct
    Positions <- MCCurved
    Ours <- MCCurved
    Config <- MCConfig
    RouteIds <- MCRoutes
    RouteSizes <- MCLone
    ShipAmounts <- MCShipCurved
    FillAmounts <- MCFillOut
    Gifts <- MCGift
    MaxBacklog = 1
    MaxTransactions = 3
    MaxDay = 0
SPECIFICATION Spec
INVARIANTS PricesAreCurrent
CHECK_DEADLOCK FALSE
