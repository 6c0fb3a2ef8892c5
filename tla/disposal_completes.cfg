\* Two requests on one campaign under fairness, with an edit of the draft and a
\* sample document that the bootstrap load may remove.
CONSTANTS
    Docs = {d1, d2}
    Seeds = {d1}
    Campaigns = {c1}
    NoCampaign = none
    Users = {u1, u2}
    Groups = {g1}
    Chunk = 1
    MaxItems = 2
    MaxChanges = 1
    MaxEdits = 1
SPECIFICATION FairSpec
PROPERTIES ProcessingCompletes
CHECK_DEADLOCK FALSE
