\* A sync, a job and a user around one order; any run may be killed.
CONSTANTS
    Syncs = {s}
    Jobs = {j}
    OneAtATime = TRUE
SPECIFICATION Spec
INVARIANT TypeOK
PROPERTIES DetailKept DetailReachesOrder  ExclusionReachesLedger
