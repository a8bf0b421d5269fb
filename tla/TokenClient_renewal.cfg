SPECIFICATION FairSpec
CONSTANTS
    Kind <- Kinds
    None = None
    Lives <- SomeLives
    Margin = 2
    Timeout = 2
    BackoffMax = 3
    RetryWait = 1
    Period = 1
    AgeCap = 12
    MaxFailures = 2
INVARIANTS TypeOK
PROPERTIES KeypairNeverExpired OAuthBarelyExpired UploadsGoOn
