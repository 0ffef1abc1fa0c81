SPECIFICATION Spec
CONSTANTS
    Node = {n1, n2, n3}
    Nil = Nil
    MaxTerm = 2
    MaxCrashes = 1
SYMMETRY Symmetry
\* The bounds end a behaviour.
CHECK_DEADLOCK FALSE
INVARIANT
    DoubleVotesWereForgotten
PROPERTY
    CampaignsOnce
