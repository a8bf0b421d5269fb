SPECIFICATION FairSpec
CONSTANTS
    dynamic = dynamic  discovery = discovery  other = other
    None = None
    Config <- AllConfigs
    Gatherer <- TwoGatherers
    NameOf <- OwnName
    Blocking <- OnlyDynamic
    Period = 1
    BackoffMax = 3
    Backoffs <- Waits
INVARIANTS TypeOK CleanExit FetchGapBounded StrictUploadsComplete
PROPERTIES LastAttempt ShutsDown KeepsGathering
CHECK_DEADLOCK FALSE
