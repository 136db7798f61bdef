CONSTANTS
    WAD = 8
    MaxAmount = 127
    Tolerance = 0
    Ln <- MCLn
    Exp <- MCExp
    Pow <- MCPow
    Tokens <- MCTokens
    Factor <- MCFactor
    MaxVersion = 7
    p1 = p1
    p2 = p2
    alien = alien
    Direct = Direct
    Positions <- MCPositions
    Ours <- MCOurs
    Config <- MCConfig
    RouteIds <- MCRoutes
    RouteSizes <- MCPairs
    ShipAmounts <- MCShip
    FillAmounts <- MCFill
    Gifts <- MCGift
    MaxBacklog = 1
    MaxTransactions = 4
    MaxDay = 1
    PageSize = 1
    MaxPages = 5
    ListLimit = 1
    Holdings <- MCHoldings
    Every = Every
    BPS = 10
    Fee = 3
    PoolLists <- MCPoolLists
    Nothing = Nothing
SPECIFICATION ViewSpec
INVARIANTS IndexMirrorsChain IndexIsSound ViewsAgree PagesAreCoherent AgentsAreServed
PROPERTIES DockedIsDelisted
CHECK_DEADLOCK FALSE
