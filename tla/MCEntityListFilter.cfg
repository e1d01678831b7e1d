SPECIFICATION Spec
CONSTANTS
    a = a
    a2 = a2
    b = b
    k = k
    v = v
    derives = derives
    clones = clones
    None = None
    Entities = {a, a2, b}
    Props = {k}
    Values = {v}
    Relations = {derives, clones}
    Ids = {"a", "b"}
    Lists = {l1, l2, l3}
    IdOf <- ById
    Params <- MCParams
    Related <- MCRelated
    Release <- MCRelease
    Eol <- MCEol
    Filters <- TwoRelations
PROPERTY FilterRespected
CHECK_DEADLOCK FALSE
