SPECIFICATION FairSpec
CONSTANTS
    Node = {n1, n2}
    Request = {r1}
    Nil = Nil
    Concurrency = 1
    EarlyTimeout = FALSE
    MaxElections = 2
    MaxFails = 1
    MaxTrouble = 2
    MaxBacklog = 1
\* The bounds end every behaviour, and an assertion may end a process.
CHECK_DEADLOCK FALSE
PROPERTIES
    EveryRequestAnswered
    UnopposedWins
    FollowersCatchUp
