\* Two devices patch different fields at the same time.
CONSTANTS
    Requests = {r1, r2}
    Parts <- MCParts
    KeyLengthStrings <- MCKeyLengthStrings
    HexStrings <- MCHexStrings
    Lowered <- MCLowered
    Arrivals <- MCPatches
    PersistDuration = 1
    NoCall = NoCall
SPECIFICATION Spec
INVARIANT AckedPatchesArePresent
CHECK_DEADLOCK FALSE
