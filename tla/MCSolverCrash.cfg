CONSTANTS
    WAD = 4
    Requests <- MCSameStart
SPECIFICATION Spec
INVARIANTS LiquidityIsRouted
