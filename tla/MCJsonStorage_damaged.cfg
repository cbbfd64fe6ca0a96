\* The same, where a file may already be unreadable when the server starts.
CONSTANTS
    Keys = {k1}
    Vals = {v1}
    k1 = k1
    v1 = v1
    None = None
    InitDisk <- DamagedDisk
    MaxRestarts = 1
SPECIFICATION Spec
PROPERTY NoEntryLost
\* Once the last allowed process has stopped nothing more happens.
CHECK_DEADLOCK FALSE
