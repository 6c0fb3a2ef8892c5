\* Two administrators and a user that may not be registered yet, two browsers, one
\* template over two bundles of permissions, three committed changes: logins, password
\* changes, resets, status changes and assignments in every order of their reads and
\* batches.
CONSTANTS
    People = {a1, a2, u1}
    Nobody = nobody
    Admins = {a1, a2}
    Legacy = {u1}
    Templates = {t1}
    Custom = custom
    Bundles = {x, y}
    NoBundle = x
    Browsers = {b1, b2}
    MaxChanges = 3
SPECIFICATION Spec
SYMMETRY Symmetry
INVARIANTS SessionsCurrent
PROPERTIES ImplementsSessions AssignedAsShown
CHECK_DEADLOCK FALSE
