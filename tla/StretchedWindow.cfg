CONSTANTS
    MaxSignals = 3
SPECIFICATION Spec
CHECK_DEADLOCK FALSE
INVARIANT FiresWithinWindow
