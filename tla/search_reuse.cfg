\* Two drains of one document and no reindex: a row is cleared and queued anew
\* between the read and the write of the slower drain.
CONSTANTS
    Docs = {1, 2}
    Seeds = {1}
    Text = {t1, t2}
    Absent = absent
    Drainers = {k1, k2}
    Reindexers = {}
    Chunk = 1
    DrainLimit = 2
    MaxFirings = 1
    MaxChanges = 2
    MaxFaults = 0
SPECIFICATION Spec
INVARIANTS NeverStaleAndClean
CHECK_DEADLOCK FALSE
