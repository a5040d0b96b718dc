\* Writes and reads of one key: timeouts, give-ups, database errors, restarts.
CONSTANTS
    Calls = {c1, c2, c3}
    Keys = {k1}
    Docs = {d1}
    Ops = {"Store", "Retrieve"}
    PersistDuration = 1
    NoCall = NoCall
    CallersGiveUp = TRUE
    OperatorResets = FALSE
SPECIFICATION Spec
SYMMETRY CallSymmetry
INVARIANTS TypeOK LastWriteStands ReadsAreFresh OnlyCancelledComeBack
CHECK_DEADLOCK FALSE
