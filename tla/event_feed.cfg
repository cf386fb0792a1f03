SPECIFICATION FairSpec
CONSTANTS
    Page = {p1}
    NoView = NoView
    QueueSize = 2
    MaxRequests = 2
    MaxProgress = 1
    MaxFailures = 1
INVARIANTS CaughtUpIsCurrent
PROPERTIES DashboardsConverge StreamsEnd
CHECK_DEADLOCK FALSE
