\* Four addresses and one reader; more than a window of three-tick hours.
CONSTANTS
    Counters = {"error"}
    IPs = {ip1, ip2, ip3, ip4}
    Readers = {rd1}
    HourLength = 3
    WindowHours = 2
    MaxNow = 8
    MaxEvents = 2
    MaxHits = 5
SPECIFICATION Spec
SYMMETRY IPSymmetry
INVARIANTS TypeOK HitsAreAttributed ViewsNeverLoseHits
PROPERTY ReportsAreRecent
CHECK_DEADLOCK FALSE
