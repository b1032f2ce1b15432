SPECIFICATION Spec
SYMMETRY PolicySymmetry
INVARIANT HolderSeesDataset
PROPERTY ChangesAreAtomic
CONSTANTS
    Clients = {c1, c2}
    Tables = {"t1", "t2"}
    Members = {m1, m2}
    Views = {"v"}
    None = None
    c1 = c1
    c2 = c2
    m1 = m1
    m2 = m2
