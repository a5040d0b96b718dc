\* Every operation; a database that may never answer.
CONSTANTS
    Calls = {c1, c2}
    Keys = {k1}
    Docs = {d1}
    Ops = {"Store", "Delete", "GetJSON", "Retrieve", "CheckHealth"}
    PersistDuration = 1
    NoCall = NoCall
    CallersGiveUp = TRUE
    OperatorResets = TRUE
SPECIFICATION LiveSpec
INVARIANT NoRefusedWrite
PROPERTIES ImplementsEphemeralStore BreakerStopsAccumulation TimeOnlyRunsOut EveryCallReturns EntriesExpire GoroutinesExit
CHECK_DEADLOCK FALSE
