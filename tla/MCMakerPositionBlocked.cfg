CONSTANTS
    WAD = 8
    MaxAmount = 127
    Tolerance = 0
    Ln <- MCLn
    Exp <- MCExp
    Pow <- MCPow
    Tokens <- MCTokens
    Factor <- MCFactor
    MaxVersion = 4
    Position <- MCPosition
    RawRequests <- MCRequests
    Gifts <- MCGifts
    MaxHeld = 6
SPECIFICATION Spec
INVARIANTS RecyclingNeverBlocks
CHECK_DEADLOCK FALSE
