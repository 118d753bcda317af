\* A sync normalises the order while a user ignores it.
CONSTANTS
    Syncs = {s}
    Jobs = {}
    OneAtATime = TRUE
SPECIFICATION Spec
PROPERTY OnlyRestoreIncludes
