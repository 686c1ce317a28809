SPECIFICATION FairSpec
CONSTANTS
    Publishers = {p1, p2}
    Subs = {s1}
    Cap = 1
    MaxPublish = 2
    DropThreshold = 1
INVARIANTS TypeOK NoSendOnClosed PublisherOrder OneWarningPerBoundary
PROPERTIES PublishReturns WritersReturn
CHECK_DEADLOCK FALSE
