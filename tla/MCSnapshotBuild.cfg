SPECIFICATION FairSpec
CONSTANTS
    FileSize = 2
    MaxCount = 1
    MaxLast = 9
\* The bound ends a behaviour.
CHECK_DEADLOCK FALSE
INVARIANT
    TriggerNotLost
PROPERTY
    LogIsCut
