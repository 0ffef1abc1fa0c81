SPECIFICATION Spec
CONSTANTS
    Settings <- MCSettings
    MaxWrites = 7
    MaxRestarts = 1
\* The bounds end a behaviour.
CHECK_DEADLOCK FALSE

    
INVARIANTS
    UncutIsReadable
    AckedAreFound
    AckedSurvive
    AgreesWithSegmentLog
