CONSTANTS
    s1 = s1
    s2 = s2
    s3 = s3
    e1 = e1
    e2 = e2
    Stacks = {s1, s2, s3}
    Empties = {e1, e2}
    NumProfiles = 3
    MaxRecords = 5
    NoMemory = TRUE
SPECIFICATION Spec
SYMMETRY Symmetry
INVARIANT TypeOK
INVARIANT SourceCountsRecords
INVARIANT RecordsKeepStacks
INVARIANT ReaderFindsStacks
PROPERTY MasterKeepsStacks
