\* Lists of up to three pages, fewer insertions than a page holds.
CONSTANTS
    PageSize = 3
    MaxListed = 8
    MaxInserts = 2
SPECIFICATION Spec
INVARIANTS TypeOK OnlyTailMissed NothingMissedWithoutCount
PROPERTY Terminates
CHECK_DEADLOCK FALSE
