SPECIFICATION FairSpec
CONSTANTS
    n1 = n1 n2 = n2 n3 = n3
    o1 = o1 o2 = o2
    s1 = s1 s2 = s2
    Node = {n1, n2, n3}
    Obj = {o1, o2}
    Stack = {s1, s2}
    NULL = NULL
    RefMax = 3
    MaxHeld = 2
    MallocMayFail = TRUE
INVARIANTS
    PathIsWalk
    NoDangling
    IInv
PROPERTIES
    StacksIndependent
    Implements
    Reclaimed
