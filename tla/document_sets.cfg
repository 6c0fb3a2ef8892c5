\* Two sets, two names, two documents, two requests, five committed changes.
CONSTANTS
    Sets = {s1, s2}
    NoSet = none
    Names = {n1, n2}
    NoName = noname
    Docs = {d1, d2}
    Users = {u1, u2}
    MaxChanges = 5
SPECIFICATION Spec
SYMMETRY Symmetry
PROPERTIES LockedStays ClonedAsShown
CHECK_DEADLOCK FALSE
