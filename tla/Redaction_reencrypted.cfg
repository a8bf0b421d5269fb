SPECIFICATION Spec
CONSTANTS
    r1 = r1  crt = crt  key = key
    applied = applied  kapp = kapp  excl = excl
    None = None
    Resource <- OneResource
    Config <- SecretConfig
    Key <- Keys
    Retained <- OnlyCrt
    MetaKey <- MetaKeys
    Superfluous <- ToolKeys
    LastApplied = applied
    Excluded <- OnlyExcl
    Content <- Contents
    MaxCopies = 1
INVARIANTS CiphertextWhole
