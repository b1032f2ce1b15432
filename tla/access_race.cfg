SPECIFICATION Spec
INVARIANT TypeOK
INVARIANT IamIsAccountedFor
INVARIANT AccessIsBacked
SYMMETRY HandlerSymmetry
CONSTANTS
    Datasets = {"d"}
    Pseudonymised = {}
    Subjects = {"alice", "all-users"}
    AllUsers = "all-users"
    Lower <- MCLower
    Callers = {"alice"}
    GroupMembers <- MCGroupMembers
    Requests = {}
    Accesses = {a1, a2}
    Threads = {t1, t2}
    Pods = {p1}
    PodOf <- MCOnePod
    Deadlines = {0}
    MaxTime = 1
    None = None
    p1 = p1
    p2 = p2
    a1 = a1
    a2 = a2
    a3 = a3
    t1 = t1
    t2 = t2
