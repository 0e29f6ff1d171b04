SPECIFICATION Spec
CONSTANTS
    d1 = d1
    d2 = d2
    e1 = e1
    e2 = e2
    Data <- MCData
    Entries <- MCEntries
    Refs <- MCRefs
    Names = {n1, n2}
    Tag = Tag
    Archivers = {a1}
    Absent = Absent
    Torn = Torn
    MaxDepth = 1
    FdLimit = 11
    Symlinks = {TRUE, FALSE}
    Overlap = "none"
    Commands = {"gc", "fsck"}
    Deletable = "any"
    Faults = {"crash", "copy", "stale", "corrupt"}
    MaxFaults = 1
    MaxRuns = 3
INVARIANT
    TypeOK
PROPERTIES
    GcKeepsReferenced
    FsckKeepsObjects
    
    FsckKeepsNodes
    FsckLeavesIntact
    
