\* Two requests of every handler and tool, one key pair in its spellings.
CONSTANTS
    Requests = {r1, r2}
    Parts <- MCParts
    KeyLengthStrings <- MCKeyLengthStrings
    HexStrings <- MCHexStrings
    Lowered <- MCLowered
    Arrivals <- MCArrivals
    PersistDuration = 1
    NoCall = NoCall
SPECIFICATION ServerSpec
SYMMETRY RequestSymmetry
INVARIANTS ServerTypeOK UploadsWereStored ErrorsMatchAnswers AckedFieldIsServed
CHECK_DEADLOCK FALSE
