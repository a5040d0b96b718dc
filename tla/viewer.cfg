\* One key in two tabs of a browser, two calls under way at a time.
CONSTANTS
    Tabs = {t1, t2}
    Keys = {k1}
    Slots = {s1, s2}
    MaxVersion = 1
    NoKey = NoKey
SPECIFICATION Spec
INVARIANTS TypeOK NoKeyTwice OneTabLosesNothing
PROPERTIES OnlyOvertakenCallsGoBack ViewCatchesUp WatchedKeysAreStored
