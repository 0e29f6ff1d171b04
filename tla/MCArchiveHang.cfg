SPECIFICATION Spec
CONSTANTS
    a = a
    b = b
    c = c
    list = list
    pa = pa
    pb = pb
    plist = plist
    NoFile = NoFile
    File <- MCFile
    RelPath <- MCRelPath
    N = 3
    Kind <- MCKind
    Tree <- MCTree
    Rel <- MCRel
    InputsCap = 1
    ItemsCap = 1
    Interruptible = TRUE
    Failures = {}
PROPERTY
    InterruptTerminates
CHECK_DEADLOCK FALSE
