\* Two interleaving runs over one order, which others may push past a page loop's
\* end; a period is cut into windows of a day, and the history kept is no longer
\* than coverage needs.
CONSTANTS
    Orders = {o1}
    Others = TRUE
    Runs = {r1, r2}
    Overlap = 1
    History = 2
    MaxWindow = 1
    MaxLag = 1
    MaxGap = 1
    MaxNow = 3
    None = None
SPECIFICATION Spec
INVARIANTS TypeOK Coverage
PROPERTY CompletedIsKept
