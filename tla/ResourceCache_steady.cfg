SPECIFICATION SteadySpec
CONSTANTS
    n1 = n1  n2 = n2  u1 = u1  u2 = u2  u3 = u3
    None = None
    Name <- TwoNames
    Uid <- ThreeUids
    NameOf <- TwoNameOf
    Included <- OnlyN1
    Expiry = 2
    ResyncPeriod = 1
    FetchGap = 2
    MaxVersion = 1
    MaxOutages = 0
    QueueBound = 2
INVARIANTS TypeOK CachedUnderOwnUid GoneIsMarkedDeleted AllSeenReported
PROPERTIES KeepsContract
