SPECIFICATION SysFairSpec
CONSTANTS
    n1 = n1  u1 = u1  u2 = u2  dynamic = dynamic
    None = None
    Name <- OneName
    Uid <- TwoUids
    NameOf <- OneNameOf
    Included <- OneName
    Dynamic = dynamic
    Expiry = 2
    ResyncPeriod = 1
    FetchGap = 3
    Period = 1
    BackoffMax = 1
    Backoffs <- OneTick
    MaxVersion = 0
    MaxOutages = 1
    QueueBound = 2
    MaxFaults = 2
CONSTRAINT InOrder
INVARIANTS SysTypeOK LiveObjectsCached DeletionsUploaded
PROPERTIES DeletionMarkPermanent BackendConverges MirrorsCluster
