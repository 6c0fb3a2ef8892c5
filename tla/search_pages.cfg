\* Two documents in pages of one, both samples that a bulk load may replace: a
\* document transaction or a chunk of the load between any two reads, conditions
\* answered from the projection or from the core tables, two fetches under way at
\* once, a page that fails or is given up while its answer is on its way.
CONSTANTS
    Docs = {1, 2}
    Seeds = {1, 2}
    Conditions = {c1, c2}
    Exact = {c2}
    Fuzzy = {c2}
    Requests = {r1, r2}
    NoRequest = none
    NoCursor = nocursor
    PageSize = 1
    MaxRank = 1
    MaxChanges = 1
    MaxInputs = 2
    MaxFaults = 1
SPECIFICATION FairSpec
INVARIANTS ShownFits AnswersAreCurrent PagesOfOneLedger
PROPERTIES SearchRests
CHECK_DEADLOCK FALSE
