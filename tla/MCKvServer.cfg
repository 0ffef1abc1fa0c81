SPECIFICATION FairSpec
CONSTANTS
    Client = {c1, c2}
    Key = {k1}
    Value = {v1, v2}
    NoValue = NoValue
    MaxLog = 2
\* A set that fails waits for ever.
CHECK_DEADLOCK FALSE
INVARIANT
    StoresAgree
PROPERTY
    ImplementsKvStore
    CallsReturn
