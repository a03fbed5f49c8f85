SPECIFICATION FairSpec
CONSTANTS
    Stream = {s1, s2}
    NoStream = NoStream
    ChannelCapacity = 1
    Planned = {s1}
    Decisions = {"allow_always", "deny_session"}
INVARIANT TypeOK
INVARIANT PendingHasWaiter
INVARIANT PolicyIsConsistent
INVARIANT EndingStands
PROPERTY InterruptedStreamEnds
CHECK_DEADLOCK FALSE
