\* Workbooks of up to five rows in chunks of two, so that a load takes one to three
\* chunks, full and partial, and a small one is loaded at once; two overlapping cron
\* runs, one document added by somebody else, two faults.
CONSTANTS
    Runs = {r1, r2}
    NoRun = norun
    Appliers = {a1}
    MaxRows = 5
    Chunk = 2
    Threshold = 1
    MaxNames = 1
    MaxWrites = 1
    MaxFaults = 2
SPECIFICATION FairSpec
INVARIANTS LoadedAsCounted CountersRight
PROPERTIES ImplementsOneLoad LoadCompletes
CHECK_DEADLOCK FALSE
