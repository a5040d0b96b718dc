\* A patch below a path and the URLs it is answered.
CONSTANTS
    Requests = {r1}
    Parts <- MCParts
    KeyLengthStrings <- MCKeyLengthStrings
    HexStrings <- MCHexStrings
    Lowered <- MCLowered
    Arrivals <- MCWrites
    PersistDuration = 1
    NoCall = NoCall
SPECIFICATION ServerSpec
INVARIANT AnsweredURLsResolve
CHECK_DEADLOCK FALSE
