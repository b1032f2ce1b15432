SPECIFICATION Spec
INVARIANT OneAccessInForce
PROPERTY EnsurerClosesExpired
SYMMETRY AccessSymmetry
CONSTANTS
    Datasets = {"d"}
    Pseudonymised = {"d"}
    Subjects = {"alice", "all-users"}
    AllUsers = "all-users"
    Lower <- MCLower
    Callers = {"alice"}
    GroupMembers <- MCGroupMembers
    Requests = {}
    Accesses = {a1, a2}
    Threads = {1}
    Pods = {p1, p2}
    PodOf <- MCOnePod
    Deadlines = {0}
    MaxTime = 2
    None = None
    p1 = p1
    p2 = p2
    a1 = a1
    a2 = a2
    a3 = a3
    t1 = t1
    t2 = t2
