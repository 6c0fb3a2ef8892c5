\* Two pages on a job of two rows, two racks, one other request, one committed change
\* besides those of the job; a limit of two documents, so that the job or the requests
\* next to it reach it, and a bulk load that locks the tables.
CONSTANTS
    RackCount = 2
    Docs = {1, 2, 3}
    NoDoc = 0
    Idents = {i1, i2}
    Users = {u1}
    Limit = 2
    MaxEdition = 2
    Pages = {g1, g2}
    RowCount = 2
    MaxFaults = 1
SPECIFICATION FairSpec
INVARIANTS RowsMakeOneDocument CompletedIsCounted
PROPERTIES CancelEndsIt CountsSpareDocuments ImportEnds
CHECK_DEADLOCK FALSE
