\* What the informers need, against what the manifest grants.
SPECIFICATION Spec
CONSTANTS
    None = None
    Groups = {"g1", "g2"}
    Resources = {"r1", "r2"}
    Namespaces = {"n1", "n2"}
    MaxOptions = 1
    MaxWithPeriods = 1
    MaxItems = 0
    GathererNames = {}
    Inputs <- MCInputs
    GathererLists <- MCGathererLists
    Findings <- MCFindings
INVARIANTS InformersMayList
CHECK_DEADLOCK FALSE
