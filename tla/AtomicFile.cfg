SPECIFICATION Spec
CONSTANTS
    w1 = w1
    w2 = w2
    w3 = w3
    m1 = m1
    m2 = m2
    Writers = {w1, w2, w3}
    Managers = {m1, m2}
    ManagerOf <- TwoManagers
    Inodes = {1, 2, 3}
    NoInode = 0
    Free = Free
    Empty = Empty
    Torn = Torn
INVARIANTS
    TypeOK
    FileWhole
PROPERTIES
    SavesAreAtomic
