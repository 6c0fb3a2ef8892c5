\* Two documents, one of them a sample that the bootstrap load replaces, one drainer
\* and two overlapping runs of the walk in chunks of one document; one document
\* transaction and one fault.
CONSTANTS
    Docs = {1, 2}
    Seeds = {1}
    Text = {t1, t2}
    Absent = absent
    Drainers = {k1}
    Reindexers = {r1, r2}
    Chunk = 1
    DrainLimit = 2
    MaxFirings = 1
    MaxChanges = 1
    MaxFaults = 1
SPECIFICATION FairSpec
INVARIANTS TypeOK ReadyMeansSearchable
PROPERTIES NeverUnlisted CursorNeverGoesBack EventuallyIndexed
CHECK_DEADLOCK FALSE
