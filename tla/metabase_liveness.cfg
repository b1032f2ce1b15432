SPECIFICATION FairSpec
PROPERTY UnmappedIsRemoved
PROPERTY MappedIsSynced
CONSTANTS
    Pods = {p1}
    Groups = {g1}
    Collections = {c1}
    Databases = {d1}
    UsersHaveAccess = TRUE
    Queued = {}
    Revokers = {"ensurer"}
    None = None
    p1 = p1
    g1 = g1
    g2 = g2
    c1 = c1
    d1 = d1
    d2 = d2
