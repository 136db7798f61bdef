CONSTANTS
    WAD = 512
    MaxAmount = 4095
    Tolerance = 32
    Bits = 7
    Ln <- MCLn
    Exp <- MCExp
    Pow <- MCPow
    RealLog <- MCRealLog
    RealPow <- MCRealPow
    Magic = LOB1
    LOB1 = LOB1
    Opcode = 1
    Tokens <- MCTokens
    Factor <- MCFactor
    alice = alice
    bob = bob
    s0 = s0
    s1 = s1
    s2 = s2
    NoSalt = NoSalt
    None = None
    Makers = {alice}
    FreshSalts <- MCFresh
    Drafts <- MCDrafts
    Curves <- MCCurves
    ForeignShips <- MCForeign
    MaxUint256 = 8000
    OtherAllowances <- MCOther
    OrdinaryPrice = 1024
    OrdinarySpread = 32
    OrdinaryExponent = 96
    MaxTouches = 1
    MaxShips = 2
SPECIFICATION PublicationSpec
INVARIANTS PreviewIsTradable IndexShowsWhatIsTraded
PROPERTIES FundedSidesAreBacked
CHECK_DEADLOCK FALSE
