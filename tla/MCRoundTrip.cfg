SPECIFICATION Spec
CONSTANTS
    f = f
    g = g
    x = x
    y = y
    z = z
    File = {f, g}
    Content = {x, y, z}
    Size <- MCSize
    NoHash = NoHash
    Absent = Absent
    Torn = Torn
    Archivers = {a1}
    Under <- MCUnder
    Before <- MCBefore
    Initial <- MCInitial
    MaxTime = 2
    MaxChanges = 2
    MaxFaults = 1
    MaxBackups = 2
INVARIANTS
    TypeOK
    
PROPERTY
    RestoreGivesBack
CHECK_DEADLOCK FALSE
