SPECIFICATION Spec
CONSTANTS
    Key = {k1}
    Value = {v1}
    None = None
    MaxLog = 3
    Start = 1
    MaxIndex = 3
    MaxCrashes = 2
\* The bounds and a store that cannot be opened end a behaviour.
CHECK_DEADLOCK FALSE
PROPERTY
    KeepsPromise
INVARIANT
    IdleStoreOpens
