\* Runs may outlive the TTL of their lock, and then overlap.
CONSTANTS
    Runs = {r1, r2, r3}
    TTL = 3
    MaxRun = 5
    Nobody = Nobody
    Abandoned = Abandoned
    Shared = Shared
SPECIFICATION Spec
INVARIANT MutualExclusion
PROPERTIES DeletesOwnKey SyncsKeepStarting ImplementsMutex
