\* Three requests of every operation on one key, which may overlap.
CONSTANTS
    Requests = {r1, r2, r3}
    Parts <- MCParts
    KeyLengthStrings <- MCKeyLengthStrings
    HexStrings <- MCHexStrings
    Lowered <- MCLowered
    Arrivals <- MCArrivals
    PersistDuration = 1
    NoCall = NoCall
SPECIFICATION Spec
SYMMETRY RequestSymmetry
INVARIANTS TypeOK LossNeedsOverlap ResurrectionNeedsOverlap
CHECK_DEADLOCK FALSE
