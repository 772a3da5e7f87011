SPECIFICATION FairSpec
CONSTANTS
    Event <- TwoEvents
    Guests = {2}
    Unknown = {2}
    MaxPublications = 2
    MaxDeliveries = 2
    BatchLimit = 1
    MaxFaults = 1
    MaxReplays <- OlderReplayed
INVARIANTS
    DuplicatesExplained
PROPERTIES
    EventsResolved
    KeepsAtLeastOnce
CHECK_DEADLOCK FALSE
