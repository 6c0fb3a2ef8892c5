\* Two requests, three documents at most two of which are in the ledger, one identity
\* that may be shared and one that may not, two places that may go out of use; two
\* committed changes.
CONSTANTS
    Docs = {d1, d2, d3}
    NoDoc = none
    Idents = {i1, i2}
    Unnumbered = {i2}
    NoIdent = noident
    Places = {p1, p2}
    NoPlace = noplace
    Users = {u1, u2}
    Capacity = 2
    BulkMax = 2
    MaxExcluded = 1
    MaxEdition = 3
SPECIFICATION Spec
SYMMETRY Symmetry
INVARIANTS HistoryStands CountersMatch
PROPERTIES NoLostUpdate
CHECK_DEADLOCK FALSE
