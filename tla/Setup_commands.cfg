\* Both commands, on every small input.
SPECIFICATION Spec
CONSTANTS
    None = None
    Groups = {"g1", "g2"}
    Resources = {"r1", "r2"}
    Namespaces = {"n1", "n2"}
    MaxOptions = 5
    MaxWithPeriods = 4
    MaxItems = 2
    GathererNames = {"d1", "d2"}
    Inputs <- MCInputs
    GathererLists <- MCGathererLists
    Findings <- MCFindings
INVARIANTS
    TypeOK
    NoProgrammerMistake
    UploadsAddressed
    KeyPairUnambiguous
    IgnoredOptionsIrrelevant
    GrantsAsConfigured
    DecodedAsGathered
CHECK_DEADLOCK FALSE
