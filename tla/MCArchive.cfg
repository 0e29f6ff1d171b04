SPECIFICATION Spec
CONSTANTS
    a = a
    b = b
    c = c
    list = list
    pa = pa
    pb = pb
    plist = plist
    NoFile = NoFile
    File <- MCFileTwo
    RelPath <- MCRelPathTwo
    N = 2
    Kind <- MCKindTwo
    Tree <- MCTreeTwo
    Rel <- MCRelTwo
    InputsCap = 2
    ItemsCap = 1
    Interruptible = TRUE
    Failures = {"stat", "walk", "cache", "hash", "item", "entry", "node"}
INVARIANTS
    TypeOK
    NobodyUnheard
    CleanRunIsComplete
    CacheSavedAtExit
    
    NeverStuck
PROPERTIES
    StepsRunOut
    Terminates
CHECK_DEADLOCK FALSE
