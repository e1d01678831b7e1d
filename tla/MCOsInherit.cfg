SPECIFICATION FairSpec
CONSTANTS
    child = child
    mid = mid
    twin = twin
    base = base
    fChild = fChild
    fMid = fMid
    fTwin = fTwin
    fBase = fBase
    fMore = fMore
    fLoop = fLoop
    None = None
    Oses <- MCOses
    Files = {fChild, fMid, fTwin, fBase, fMore, fLoop}
    File <- MCFile
    Filters <- MCFilters
    MaxDepth = 4
INVARIANT TypeOK
INVARIANT NearestInherited
INVARIANT FirmwaresInherited
INVARIANT ResourcesAsFresh
PROPERTY GettersReturn
CHECK_DEADLOCK FALSE
