SPECIFICATION FairSpec
CONSTANTS
    c1 = c1
    r1 = r1
    t1 = t1
    original = original
    Cancels <- MCCancels
    Replaces <- MCReplaces
    Readers <- MCReaders
    Original = original
    MaxFills = 1
INVARIANTS TypeOK RowIsTruthful ConfirmedIsReal
PROPERTIES RowCatchesUp VisibleMutationSettles
