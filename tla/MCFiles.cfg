CONSTANTS
    Procs = {p1, p2}
    NFile = 5
    NOfile = 4
    NInode = 3
    Inums = {1, 2, 3, 4}
    Root = 1
    Names <- MCNames
    Disk0 <- MCDisk
    Paths <- MCPaths
    MaxOdd = 1
    Null = Null
SYMMETRY Symmetry
SPECIFICATION Spec
INVARIANTS
    TypeOK
    FilesCounted
    InodesCounted
    OneCopyPerInode
    CleanAssertsHold
CHECK_DEADLOCK FALSE
