SPECIFICATION Spec
CONSTANTS
    d1 = d1
    e1 = e1
    e2 = e2
    n1 = n1
    n2 = n2
    tag = tag
    p = p
    Data = {d1}
    Entries = {e1, e2}
    Refs <- MCRefs
    Names = {n1, tag}
    Absent = Absent
    Tag = tag
    Extends <- MCPrefixFree
    Dir = Dir
    Path = {p}
    At <- MCAt
    Urls <- MCUrls
    Readers = {r1}
    MaxItems = 1
    MaxTime = 4
    MaxPending = 2
PROPERTY
    RemovesOldest
CHECK_DEADLOCK FALSE
