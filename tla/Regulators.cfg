SPECIFICATION Spec
CONSTANTS
    Phases = {1, 2}
    RaiseTaps = 2
    LowerTaps = 1
    HalfBand = 0
    Timings <- MCTimings
    Sources <- MCSources
    LastTime = 6
INVARIANTS Awake NotPast
PROPERTIES Paced Patient Settles
CHECK_DEADLOCK FALSE
