\* Two keyboards; one change of the settings or restart; two faults.
SPECIFICATION FairSpec
CONSTANTS
    Target = {k1, k2}
    Off = Off
    Preview = Preview
    Invalid = Invalid
    NoKey = NoKey
    Retries = 2
    Pressed = TRUE
    MaxEdits = 1
    MaxFaults = 2
INVARIANTS ClosesSettled IndicatorRestored
PROPERTIES FailureStaysVisible Settles
CHECK_DEADLOCK FALSE
