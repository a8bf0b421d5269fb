SPECIFICATION Spec
CONSTANTS
    n1 = n1  n2 = n2  u1 = u1  u2 = u2  u3 = u3
    None = None
    Name <- OneName
    Uid <- TwoUids
    NameOf <- OneNameOf
    Included <- OneName
    Expiry = 2
    ResyncPeriod = 1
    FetchGap = 2
    MaxVersion = 1
    MaxOutages = 1
    QueueBound = 3
INVARIANTS GoneIsMarkedDeleted
