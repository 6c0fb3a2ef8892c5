\* One workbook, two operators, one user on single documents, two documents, two
\* identities, one place; three editions.
CONSTANTS
    Docs = {d1, d2}
    NoDoc = none
    Idents = {i1, i2}
    Unnumbered = {}
    NoIdent = noident
    Places = {p1}
    NoPlace = noplace
    Users = {u1}
    Capacity = 2
    BulkMax = 1
    MaxExcluded = 1
    MaxEdition = 3
    Workbooks = {w1}
    NoWorkbook = nowork
    Operators = {o1, o2}
    Kept = kept
    Left = left
SPECIFICATION SyncSpec
SYMMETRY Symmetry
INVARIANTS ReviewHolds
PROPERTIES LedgerIsWorkbook ImplementsVersions
CHECK_DEADLOCK FALSE
