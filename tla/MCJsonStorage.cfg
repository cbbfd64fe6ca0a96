\* One key, one value, the files an earlier run may have left, and one
\* process death or restart.
CONSTANTS
    Keys = {k1}
    Vals = {v1}
    k1 = k1
    v1 = v1
    None = None
    InitDisk <- WrittenDisk
    MaxRestarts = 1
SPECIFICATION Spec
INVARIANT TypeOK
INVARIANT FilesStayReadable
PROPERTY AckedOnDisk
PROPERTY NoEntryLost
PROPERTY RefinesDurableStore
\* Once the last allowed process has stopped nothing more happens.
CHECK_DEADLOCK FALSE
