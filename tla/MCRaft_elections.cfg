SPECIFICATION Spec
CONSTANTS
    Node = {n1, n2, n3}
    Request = {}
    Nil = Nil
    Concurrency = 1
    EarlyTimeout = FALSE
    MaxElections = 2
    MaxFails = 1
    MaxTrouble = 3
    MaxBacklog = 1
SYMMETRY Symmetry
\* The bounds end every behaviour, and an assertion may end a process.
CHECK_DEADLOCK FALSE
INVARIANTS
    OneGrantPerTerm
    LeaderHasGrant
    TwoLeadersSharedAVote
    ElectionTimerCovers
    LeaderIsServing
    DeposedStops
