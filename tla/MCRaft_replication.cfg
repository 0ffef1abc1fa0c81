SPECIFICATION Spec
CONSTANTS
    Node = {n1, n2, n3}
    Request = {r1, r2}
    Nil = Nil
    Concurrency = 1
    EarlyTimeout = FALSE
    MaxElections = 1
    MaxFails = 0
    MaxTrouble = 1
    MaxBacklog = 2
SYMMETRY Symmetry
\* The bounds end every behaviour, and an assertion may end a process.
CHECK_DEADLOCK FALSE
INVARIANTS
    StableCommittedOnMajority
    StableMatchIsStored
    StableFollowersApplyCommitted
PROPERTIES
    StableCommitNeverRewinds
