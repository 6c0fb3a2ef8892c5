\* Three documents with two attributes, one campaign for up to two of them, two
\* requests, one document transaction and one edit of the draft.
CONSTANTS
    Docs = {d1, d2, d3}
    Seeds = {}
    Campaigns = {c1}
    NoCampaign = none
    Users = {u1, u2}
    Groups = {g1, g2}
    Chunk = 1
    MaxItems = 2
    MaxChanges = 1
    MaxEdits = 1
SPECIFICATION Spec
SYMMETRY Symmetry
INVARIANTS TypeOK CancelledIsHarmless TotalsAddUp
PROPERTIES NeverDisposesTouched FrozenSetFixed ExclusionsFinal FrozenAsReviewed
CHECK_DEADLOCK FALSE
