SPECIFICATION Spec
CONSTANTS
    Node = {n1, n2}
    Request = {r1, r2}
    Nil = Nil
    Concurrency = 2
    EarlyTimeout = FALSE
    MaxElections = 2
    MaxFails = 1
    MaxTrouble = 2
    MaxBacklog = 1
SYMMETRY Symmetry
\* The bounds end every behaviour, and an assertion may end a process.
CHECK_DEADLOCK FALSE
INVARIANTS
    TypeOK
    StableLogsArePrefixes
    AnsweredOnce
    CallbackCanTimeOut
