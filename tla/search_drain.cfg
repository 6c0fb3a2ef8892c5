\* Two drainers, two documents, bursts of up to two trigger firings, two document
\* transactions, one fault, and the bootstrap load; no reindex run, so that every
\* interleaving of the drains is covered.
CONSTANTS
    Docs = {1, 2}
    Seeds = {1}
    Text = {t1, t2}
    Absent = absent
    Drainers = {k1, k2}
    Reindexers = {}
    Chunk = 1
    DrainLimit = 2
    MaxFirings = 2
    MaxChanges = 2
    MaxFaults = 1
SPECIFICATION Spec
SYMMETRY Symmetry
INVARIANTS FtsMatchesProjection ReadsProtected FreshOrDirty
CHECK_DEADLOCK FALSE
