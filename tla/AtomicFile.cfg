SPECIFICATION Spec
CONSTANTS
    p1 = p1
    p2 = p2
    w1 = w1
    w2 = w2
    w3 = w3
    Procs = {p1, p2}
    Writers = {w1, w2, w3}
    Home <- TwoThreadsAndOne
    Readers = {r1}
    Pids = {k1, k2}
    NoPid = NoPid
    Contents = {old}
    Torn = Torn
    NoFile = NoFile
    Denied = Denied
    Inodes = {i1, i2, i3}
    NoInode = NoInode
    Target = Target
    MaxTemp = 1
    ReadAttempts = 2
SYMMETRY Symmetry
INVARIANTS
    NoLeftovers
PROPERTIES
    ImplementsRegister
