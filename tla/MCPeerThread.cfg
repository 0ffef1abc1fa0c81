SPECIFICATION FairSpec
CONSTANTS
    MaxLast = 2
    MaxElections = 3
    MaxFailures = 2
\* A thread that has ended takes no step.
CHECK_DEADLOCK FALSE
INVARIANT
    SendsAsTold
PROPERTY
    EntriesAreSent
    HeartbeatsGoOn
    CommandsAreTaken
    StopEnds
