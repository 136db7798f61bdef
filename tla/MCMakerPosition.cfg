CONSTANTS
    WAD = 8
    MaxAmount = 95
    Tolerance = 0
    Ln <- MCLn
    Exp <- MCExp
    Pow <- MCPow
    Tokens <- MCTokens
    Factor <- MCFactor
    MaxVersion = 3
    Position <- MCPosition
    RawRequests <- MCRequests
    Gifts <- MCGifts
    MaxHeld = 6
SPECIFICATION Spec
INVARIANTS TypeOK ReserveWithinScale
PROPERTIES AllocationTracksReserve MakerNeverLoses RecyclingKeepsProgress
CHECK_DEADLOCK FALSE
