SPECIFICATION Spec
CONSTANTS
    d1 = d1
    d2 = d2
    e1 = e1
    e2 = e2
    Data <- MCData
    Entries <- MCEntries
    Refs <- MCRefs
    Names = {n1, n2}
    Tag = Tag
    Archivers = {a1, a2}
    Absent = Absent
    Torn = Torn
    MaxDepth = 1
    FdLimit = 9
    Symlinks = {TRUE}
    Overlap = "all"
    Commands = {}
    Deletable = "none"
    Faults = {}
    MaxFaults = 0
    MaxRuns = 4
PROPERTY
    NodesAreImmutable
