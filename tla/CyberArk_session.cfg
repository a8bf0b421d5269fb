SPECIFICATION FairSpec
CONSTANTS
    e1 = e1  e2 = e2  k1 = k1  k2 = k2
    None = None
    Endpoint <- Endpoints
    Directory <- Directories
    FirstDirectory <- Home
    Key <- Keys
    FirstKey = k1
    DiscoveryTTL = 3
    TokenTTL = 2
    KeyTTL = 2
    BackoffMax = 2
    RetryWait = 1
    Period = 1
    RetiredCap = 5
    MaxChanges = 2
    MaxFailures = 1
    ListGatherers <- Lists
    Gathered <- SomeReadings
INVARIANTS TypeOK PasswordToRecentIdentity SentLastGathered
PROPERTIES EncryptsWithRecentKey UploadsResume EncryptionResumes
