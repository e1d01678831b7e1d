SPECIFICATION FairSpec
CONSTANTS
    r1 = r1
    r2 = r2
    us = us
    de = de
    None = None
    Requests <- MCRequests
    Keys = {"l10n-keyboard"}
    Mapped = {"l10n-keyboard"}
    Values = {us, de}
    Given <- MCGiven
    Default = us
    Length = 2
    MaxChanges = 1
    MaxFailures = 1
INVARIANT TypeOK
INVARIANT WrittenWhole
INVARIANT DatamapsInverse
PROPERTY RequestImplemented
PROPERTY NestedReturn
CHECK_DEADLOCK FALSE
