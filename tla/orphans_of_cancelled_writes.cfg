\* Callers that go away: the breaker does not notice.
CONSTANTS
    Calls = {c1, c2}
    Keys = {k1}
    Docs = {d1}
    Ops = {"Store"}
    PersistDuration = 1
    NoCall = NoCall
    CallersGiveUp = TRUE
    OperatorResets = FALSE
SPECIFICATION Spec
INVARIANT OrphansOpenBreaker
CHECK_DEADLOCK FALSE
