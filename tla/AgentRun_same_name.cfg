SPECIFICATION Spec
CONSTANTS
    dynamic = dynamic  discovery = discovery  other = other
    None = None
    Config <- AllConfigs
    Gatherer <- SameKind
    NameOf <- OneName
    Blocking <- SameKind
    Period = 1
    BackoffMax = 1
    Backoffs <- Waits
INVARIANTS AllConfiguredFetched
CHECK_DEADLOCK FALSE
