\* Four requests of every kind; the burst is two, a tick refills one token.
CONSTANTS
    Requests = {r1, r2, r3, r4}
    Addresses <- MCAddresses
    TrustedProxies <- MCProxies
    Arrivals <- MCArrivals
    RateLimitPerSecond = 1
    RateLimitBurst = 2
    NoAddress <- MCNoAddress
    MaxNow = 2
SPECIFICATION Spec
SYMMETRY RequestSymmetry
INVARIANTS TypeOK NeverOverTheLimit LimitedOnlyOverTheLimit HitsAreErrors AnswersAreCounted
CHECK_DEADLOCK FALSE
