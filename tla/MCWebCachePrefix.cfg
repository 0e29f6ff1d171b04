SPECIFICATION Spec
CONSTANTS
    d1 = d1
    e1 = e1
    e2 = e2
    n1 = n1
    n2 = n2
    tag = tag
    p = p
    Data = {d1}
    Entries = {e1, e2}
    Refs <- MCRefs
    Names = {n1, n2, tag}
    Absent = Absent
    Tag = tag
    Extends <- MCSuffixed
    Dir = Dir
    Path = {p}
    At <- MCAt
    Urls <- MCTwoUrls
    Readers = {r1}
    MaxItems = 1
    MaxTime = 1
    MaxPending = 1
PROPERTY
    ServesTheNode
CHECK_DEADLOCK FALSE
