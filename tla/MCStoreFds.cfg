SPECIFICATION Spec
CONSTANTS
    d1 = d1
    d2 = d2
    e1 = e1
    e2 = e2
    Data <- MCData
    Entries <- MCEntries
    Refs <- MCRefs
    Names = {n1, n2}
    Tag = Tag
    Archivers = {a1}
    Absent = Absent
    Torn = Torn
    MaxDepth = 1
    FdLimit = 4
    Symlinks = {TRUE}
    Overlap = "none"
    Commands = {"gc", "fsck"}
    Deletable = "none"
    Faults = {}
    MaxFaults = 0
    MaxRuns = 4
PROPERTY
    FsckKeepsNodes
