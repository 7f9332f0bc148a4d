SPECIFICATION Spec
\* Calls that fail are stuttering steps: the mount may be full for good.
CHECK_DEADLOCK FALSE
CONSTANTS
    r = r
    i1 = i1
    i2 = i2
    NoInode = NoInode
    Wild = Wild
    Inodes <- MCInodes
    Root = r
    SHADOWFS_BLOCK_SIZE = 2
    DENTRY_COST = 2
    BLOCK_COST = 1
    Quota = 5
    UINT = 8
    DEVFS_MAX_DEVICES = 16
    MAX_PROCESSES = 2
    MaxPid = 3
    StateWord <- MCStateWord
    VFS_MAX_FDS = 5
    VFS_MAX_MOUNTS = 16
    Workloads <- MCWorkloads
    Reads = {1, 3}
SYMMETRY Pointers
INVARIANTS
    SizeIsContent
    OnlyLastBlockPartial
    ReadReturnsContent
    UsedCoversCost
    TreeIsSound
    StandardStreams
PROPERTIES
    WriteKeepsEarlierBytes
    ReportsOneProcess
