SPECIFICATION Spec
CONSTANTS
    d1 = d1
    d2 = d2
    e1 = e1
    e2 = e2
    Data <- MCOneData
    Entries <- MCOneEntry
    Refs <- MCOneRef
    Names = {n1}
    Tag = Tag
    Archivers = {a1}
    Absent = Absent
    Torn = Torn
    MaxDepth = 1
    FdLimit = 1
    Symlinks = {TRUE}
    Overlap = "all"
    Commands = {"gc", "fsck"}
    Deletable = "any"
    Faults = {"crash"}
    MaxFaults = 1
    MaxRuns = 2
INVARIANT
    GcInv

    
