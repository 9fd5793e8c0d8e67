CONSTANTS
    s1 = s1
    s2 = s2
    s3 = s3
    e1 = e1
    e2 = e2
    Stacks = {s1, s2, s3}
    Empties = {}
    NumProfiles = 3
    MaxRecords = 5
    NoMemory = FALSE
SPECIFICATION Spec
INVARIANT MoveNeverAborts
