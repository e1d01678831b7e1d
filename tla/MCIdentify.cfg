SPECIFICATION Spec
CONSTANTS
    fedora = fedora
    ubuntu = ubuntu
    gentoo = gentoo
    f1 = f1
    f2 = f2
    u1 = u1
    u2 = u2
    g1 = g1
    t1 = t1
    t2 = t2
    t3 = t3
    t4 = t4
    a = a
    b = b
    None = None
    Oses <- MCOses
    Rolling = {gentoo}
    Refs <- MCRefs
    Ref <- MCRef
    Chars <- MCChars
    Things <- MCThings
    MaxFills = 2
INVARIANT TypeOK
INVARIANT PreferredFirst
INVARIANT FallbackApart
INVARIANT NothingMissed
INVARIANT SpecificFirst
INVARIANT DescribedByOne
PROPERTY IdentifiedAgain
