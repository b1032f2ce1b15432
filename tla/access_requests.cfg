SPECIFICATION Spec
INVARIANT ApprovedMeansAccess
INVARIANT IamIsAccountedFor
SYMMETRY AccessSymmetry
CONSTANTS
    Datasets = {"d"}
    Pseudonymised = {}
    Subjects = {"alice", "Alice", "all-users"}
    AllUsers = "all-users"
    Lower <- MCLower
    Callers = {"alice", "Alice"}
    GroupMembers <- MCGroupMembers
    Requests = {"q"}
    Accesses = {a1, a2}
    Threads = {1, 2}
    Pods = {p1}
    PodOf <- MCOnePod
    Deadlines = {}
    MaxTime = 0
    None = None
    p1 = p1
    p2 = p2
    a1 = a1
    a2 = a2
    a3 = a3
    t1 = t1
    t2 = t2
