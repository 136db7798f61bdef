CONSTANTS
    WAD = 16
    MaxAmount = 1023
    Tolerance = 0
    Ln <- MCLn
    Exp <- MCExp
    Pow <- MCPow
    Word = 16
    SoladyLn <- MCSoladyLn
    SoladyExp <- MCSoladyExp
    MinExpInput <- MCMinExpInput
    MaxExpInput = 47
    NearZero = 4
    LnError = 2
    ExpError = 2
    Side <- MCSide
    Policy <- MCFlat
    Requests <- MCRequests
SPECIFICATION CurveSpec
INVARIANTS TakersPayTheCurve QuotesAreCoherent ArithmeticIsSound
CHECK_DEADLOCK FALSE
